---- MODULE Spec2Model ----
(***************************************************************************)
(* Model of the dimension-agnostic expression builder                      *)
(* (src/src/math_engine/builder.py, class DimensionAgnosticBuilder).       *)
(*                                                                         *)
(* Python strings are modelled as sequences of one-character strings, so   *)
(* that the three regular expressions of the builder and str.replace are   *)
(* modelled by what they do on characters.                                 *)
(***************************************************************************)
EXTENDS Integers, Sequences, FiniteSets, TLC

(***************************************************************************)
(* Bounds of the model                                                     *)
(***************************************************************************)
\* largest dimension a caller passes (the axis table has 10 names)
MaxDim == 11
\* deepest nesting of call/parenthesis wrappers in a generated notation
MaxNest == 2

(***************************************************************************)
(* Characters                                                              *)
(***************************************************************************)
Digits == <<"0", "1", "2", "3", "4", "5", "6", "7", "8", "9">>

IsDigit(c) == \E k \in 1..Len(Digits) : Digits[k] = c

Letters ==
    {"a", "b", "c", "d", "e", "f", "g", "h", "i", "j", "k", "l", "m",
     "n", "o", "p", "q", "r", "s", "t", "u", "v", "w", "x", "y", "z",
     "A", "B", "C", "D", "E", "F", "G", "H", "I", "J", "K", "L", "M",
     "N", "O", "P", "Q", "R", "S", "T", "U", "V", "W", "X", "Y", "Z"}

\* the class \w of Python's re module, on ASCII text
IsWordChar(c) == c \in Letters \/ IsDigit(c) \/ c = "_"

\* s[i:i+len(pat)] == pat   (i is a 1-based position of s)
StartsWithAt(s, i, pat) ==
    /\ i >= 1
    /\ i + Len(pat) - 1 <= Len(s)
    /\ \A k \in 1..Len(pat) : s[i + k - 1] = pat[k]

\* pat in s
Contains(s, pat) == \E i \in 1..Len(s) : StartsWithAt(s, i, pat)

\* sep.join(parts)
RECURSIVE Join(_, _)
Join(parts, sep) ==
    IF Len(parts) = 0 THEN <<>>
    ELSE IF Len(parts) = 1 THEN parts[1]
    ELSE parts[1] \o sep \o Join(Tail(parts), sep)

\* the least element of a non-empty set of positions
Least(S) == CHOOSE x \in S : \A y \in S : x <= y

\* the last position of the longest run of decimal digits that starts at
\* position i (i - 1 when the run is empty): a greedy \d*
RECURSIVE DigitRunEnd(_, _)
DigitRunEnd(s, i) ==
    IF i <= Len(s) /\ IsDigit(s[i]) THEN DigitRunEnd(s, i + 1) ELSE i - 1

NotParen(c) == c # "(" /\ c # ")"

\* the same for the class [^()]
RECURSIVE NotParenRunEnd(_, _)
NotParenRunEnd(s, i) ==
    IF i <= Len(s) /\ NotParen(s[i]) THEN NotParenRunEnd(s, i + 1) ELSE i - 1

(***************************************************************************)
(* The builder's fields                                                    *)
(***************************************************************************)
coord_names == <<<<"x">>, <<"y">>, <<"z">>, <<"w">>, <<"v">>,
                 <<"u">>, <<"t">>, <<"s">>, <<"r">>, <<"q">>>>

\* a slice taken from the end of the table
CoordSliceFromEnd(n) ==
    SubSeq(coord_names,
           IF n < Len(coord_names) THEN Len(coord_names) - n + 1 ELSE 1,
           Len(coord_names))

\* coord_names[:n], Python slicing (n >= 0): at most the whole table
CoordSlice(n) ==
    SubSeq(coord_names, 1, IF n < Len(coord_names) THEN n ELSE Len(coord_names))

\* get_coords(n): the first n axes, or the error for n beyond the table
get_coords(n) ==
    IF n > Len(coord_names)
    THEN [err |-> "ValueError: maximum dimensions", out |-> <<>>]
    ELSE [err |-> "none", out |-> CoordSlice(n)]

S_Dim == <<"D", "i", "m">>

(***************************************************************************)
(* Numbers and str(number)                                                 *)
(***************************************************************************)
\* a parameter value: a Python int n, or a float n.tenths
IntVal(n) == [isFloat |-> FALSE, n |-> n, tenths |-> 0]
FloatVal(n, t) == [isFloat |-> TRUE, n |-> n, tenths |-> t]

\* str(n) for an int n >= 0
RECURSIVE NatStr(_)
NatStr(n) ==
    IF n < 10 THEN <<Digits[n + 1]>>
    ELSE NatStr(n \div 10) \o <<Digits[(n % 10) + 1]>>

\* str(param_value)
PyStr(v) ==
    IF v.isFloat THEN NatStr(v.n) \o <<".">> \o NatStr(v.tenths)
    ELSE NatStr(v.n)

\* int(text) for a text of decimal digits
DigitValue(c) == (CHOOSE k \in 1..Len(Digits) : Digits[k] = c) - 1

RECURSIVE PyInt(_)
PyInt(ds) ==
    IF Len(ds) = 0 THEN 0
    ELSE 10 * PyInt(SubSeq(ds, 1, Len(ds) - 1)) + DigitValue(ds[Len(ds)])

(***************************************************************************)
(* Step 1: _replace_indexed_dims                                           *)
(***************************************************************************)
S_DimOpen == <<"D", "i", "m", "[">>

\* the match of  Dim\[(\d+)\]  at position i: the position of its closing
\* bracket, 0 when the pattern does not match at i
IndexedDimEnd(s, i) ==
    IF ~StartsWithAt(s, i, S_DimOpen) THEN 0
    ELSE LET e == DigitRunEnd(s, i + 4)
         IN  IF e >= i + 4 /\ e + 1 <= Len(s) /\ s[e + 1] = "]"
             THEN e + 1 ELSE 0

\* the outcome of a step: a string, or the exception that ended the call
Ok(s) == [err |-> "none", out |-> s]
Raise(e) == [err |-> e, out |-> <<>>]

\* replacer with the range test off by one (idx > dimension)
ReplacerLateTest(idx, dimension) ==
    IF idx > dimension THEN Raise("ValueError: index out of range")
    ELSE IF idx >= Len(coord_names) THEN Raise("IndexError")
    ELSE Ok(coord_names[idx + 1])

\* replacer that reads the table one place too far (coord_names[idx + 1])
ReplacerNextAxis(idx, dimension) ==
    IF idx >= dimension THEN Raise("ValueError: index out of range")
    ELSE IF idx + 1 >= Len(coord_names) THEN Raise("IndexError")
    ELSE Ok(coord_names[idx + 2])

\* replacer(match): the text that replaces one Dim[idx], or the exception
Replacer(idx, dimension) ==
    IF idx >= dimension THEN Raise("ValueError: index out of range")
    ELSE IF idx >= Len(coord_names) THEN Raise("IndexError")
    ELSE Ok(coord_names[idx + 1])

\* the leftmost position >= i where  Dim\[(\d+)\]  matches, 0 when none
NextIndexedDim(s, i) ==
    LET M == {j \in i..Len(s) : IndexedDimEnd(s, j) # 0}
    IN  IF M = {} THEN 0 ELSE Least(M)

\* re.sub(r'Dim\[(\d+)\]', replacer, expr_str), scanning from position i:
\* the matches are replaced from left to right, and the first replacer call
\* that raises ends the substitution
RECURSIVE SubIndexedFrom(_, _, _)
SubIndexedFrom(s, i, dimension) ==
    LET j == NextIndexedDim(s, i)
    IN  IF j = 0 THEN Ok(SubSeq(s, i, Len(s)))
        ELSE LET e == IndexedDimEnd(s, j)
                 r == Replacer(PyInt(SubSeq(s, j + 4, e - 1)), dimension)
             IN  IF r.err # "none" THEN r
                 ELSE LET rest == SubIndexedFrom(s, e + 1, dimension)
                      IN  IF rest.err # "none" THEN rest
                          ELSE Ok(SubSeq(s, i, j - 1) \o r.out \o rest.out)

replace_indexed_dims(expr, dimension) == SubIndexedFrom(expr, 1, dimension)

(***************************************************************************)
(* Step 2: _expand_functions                                               *)
(***************************************************************************)
S_sum == <<"s", "u", "m">>
S_prod == <<"p", "r", "o", "d">>
S_max == <<"m", "a", "x">>
S_min == <<"m", "i", "n">>
FuncNames == {S_sum, S_prod, S_max, S_min}

\* the match of  name\(([^()]+)\)  at position i: the position of its
\* closing parenthesis, 0 when it does not match there
CallEnd(s, i, name) ==
    IF ~(StartsWithAt(s, i, name) /\ StartsWithAt(s, i + Len(name), <<"(">>))
    THEN 0
    ELSE LET a == i + Len(name) + 1
             e == NotParenRunEnd(s, a)
         IN  IF e >= a /\ e + 1 <= Len(s) /\ s[e + 1] = ")" THEN e + 1 ELSE 0

MatchesAt(s, i) == \E name \in FuncNames : CallEnd(s, i, name) # 0

\* re.search(r'(sum|prod|max|min)\(([^()]+)\)', expr_str): the leftmost
\* match, as [found, start, end, func_name, inner_expr]
NoMatch == [found |-> FALSE, start |-> 0, end |-> 0,
            func_name |-> <<>>, inner_expr |-> <<>>]

\* the leftmost position where the pattern matches, 0 when none does
SearchStart(s) ==
    LET M == {j \in 1..Len(s) : MatchesAt(s, j)}
    IN  IF M = {} THEN 0 ELSE Least(M)

SearchCall(s) ==
    LET i == SearchStart(s)
    IN  IF i = 0 THEN NoMatch
        ELSE LET name == CHOOSE n \in FuncNames : CallEnd(s, i, n) # 0
                 e == CallEnd(s, i, name)
             IN  [found |-> TRUE, start |-> i, end |-> e, func_name |-> name,
                  inner_expr |-> SubSeq(s, i + Len(name) + 1, e - 1)]

\* s.replace(old, new), scanning from position i (old is not empty): the
\* occurrences are taken from left to right and do not overlap
RECURSIVE StrReplaceFrom(_, _, _, _)
StrReplaceFrom(s, i, old, new) ==
    LET M == {j \in i..Len(s) : StartsWithAt(s, j, old)}
    IN  IF M = {} THEN SubSeq(s, i, Len(s))
        ELSE LET j == Least(M)
             IN  SubSeq(s, i, j - 1) \o new
                     \o StrReplaceFrom(s, j + Len(old), old, new)

StrReplace(s, old, new) == StrReplaceFrom(s, 1, old, new)

\* terms: one copy of inner_expr per axis of coord_names[:dimension]
Terms(inner_expr, dimension) ==
    LET coords == CoordSlice(dimension)
    IN  [k \in 1..Len(coords) |-> StrReplace(inner_expr, S_Dim, coords[k])]

Parenthesized(ts) == [k \in 1..Len(ts) |-> <<"(">> \o ts[k] \o <<")">>]

\* the replacement with the product joined like the sum
ReplacementSumForProd(func_name, terms) ==
    IF func_name = S_sum THEN Join(Parenthesized(terms), <<" ", "+", " ">>)
    ELSE IF func_name = S_prod THEN Join(Parenthesized(terms), <<" ", "+", " ">>)
    ELSE IF func_name = S_max
         THEN <<"M", "a", "x", "(">> \o Join(terms, <<",", " ">>) \o <<")">>
    ELSE <<"M", "i", "n", "(">> \o Join(terms, <<",", " ">>) \o <<")">>

\* the replacement with max and min left in lower case
ReplacementLowerCase(func_name, terms) ==
    IF func_name = S_sum THEN Join(Parenthesized(terms), <<" ", "+", " ">>)
    ELSE IF func_name = S_prod THEN Join(Parenthesized(terms), <<" ", "*", " ">>)
    ELSE IF func_name = S_max
         THEN <<"m", "a", "x", "(">> \o Join(terms, <<",", " ">>) \o <<")">>
    ELSE <<"m", "i", "n", "(">> \o Join(terms, <<",", " ">>) \o <<")">>

\* the text that replaces the matched call, before the outer parentheses
Replacement(func_name, terms) ==
    IF func_name = S_sum THEN Join(Parenthesized(terms), <<" ", "+", " ">>)
    ELSE IF func_name = S_prod THEN Join(Parenthesized(terms), <<" ", "*", " ">>)
    ELSE IF func_name = S_max
         THEN <<"M", "a", "x", "(">> \o Join(terms, <<",", " ">>) \o <<")">>
    ELSE <<"M", "i", "n", "(">> \o Join(terms, <<",", " ">>) \o <<")">>

\* the text spliced in place of the matched call
Spliced(replacement) == <<"(">> \o replacement \o <<")">>

\* one iteration of the while loop on a string that has a match m
ExpandOnce(s, m, dimension) ==
    SubSeq(s, 1, m.start - 1)
        \o Spliced(Replacement(m.func_name, Terms(m.inner_expr, dimension)))
        \o SubSeq(s, m.end + 1, Len(s))

(***************************************************************************)
(* Step 3: _replace_params                                                 *)
(***************************************************************************)
\* \b at the gap before position i of s (between s[i-1] and s[i])
WordBoundary(s, i) ==
    LET before == i - 1 >= 1 /\ i - 1 <= Len(s) /\ IsWordChar(s[i - 1])
        after == i >= 1 /\ i <= Len(s) /\ IsWordChar(s[i])
    IN  before # after

\* \b name \b matches at position i
WordMatchAt(s, i, name) ==
    /\ StartsWithAt(s, i, name)
    /\ WordBoundary(s, i)
    /\ WordBoundary(s, i + Len(name))

\* re.sub(r'\b' + param_name + r'\b', text, expr_str), from position i
\* (param_name is not empty)
RECURSIVE SubWordFrom(_, _, _, _)
SubWordFrom(s, i, name, text) ==
    LET M == {j \in i..Len(s) : WordMatchAt(s, j, name)}
    IN  IF M = {} THEN SubSeq(s, i, Len(s))
        ELSE LET j == Least(M)
             IN  SubSeq(s, i, j - 1) \o text
                     \o SubWordFrom(s, j + Len(name), name, text)

\* the substitution without the word boundaries (a plain str.replace)
SubWordAnywhere(s, name, text) == StrReplace(s, name, text)

SubWord(s, name, text) == SubWordFrom(s, 1, name, text)

\* the for loop over params.items(); params is the sequence of the
\* mapping's (name, value) pairs in insertion order
RECURSIVE replace_params(_, _)
replace_params(expr, params) ==
    IF Len(params) = 0 THEN expr
    ELSE replace_params(SubWord(expr, params[1].name, PyStr(params[1].value)),
                        Tail(params))

\* the while loop of step 2, run to its break
RECURSIVE expand_functions(_, _)
expand_functions(s, dimension) ==
    LET m == SearchCall(s)
    IN  IF m.found THEN expand_functions(ExpandOnce(s, m, dimension), dimension)
        ELSE s

\* expand as one function: its three steps in order
expand(expr_str, dimension, params) ==
    LET r == replace_indexed_dims(expr_str, dimension)
    IN  IF r.err # "none" THEN r
        ELSE Ok(replace_params(expand_functions(r.out, dimension), params))

(***************************************************************************)
(* Parameter mappings (Python dicts, in insertion order)                   *)
(***************************************************************************)
Param(name, value) == [name |-> name, value |-> value]

HasKey(d, name) == \E k \in 1..Len(d) : d[k].name = name

\* d[name] = value
DictSet(d, name, value) ==
    IF HasKey(d, name)
    THEN [k \in 1..Len(d) |->
             IF d[k].name = name THEN Param(name, value) ELSE d[k]]
    ELSE Append(d, Param(name, value))

\* an update that keeps the value of a key the mapping already has
RECURSIVE DictUpdateKeepOld(_, _)
DictUpdateKeepOld(d, other) ==
    IF Len(other) = 0 THEN d
    ELSE DictUpdateKeepOld(
             IF HasKey(d, other[1].name) THEN d
             ELSE Append(d, other[1]),
             Tail(other))

\* d.update(other)
RECURSIVE DictUpdate(_, _)
DictUpdate(d, other) ==
    IF Len(other) = 0 THEN d
    ELSE DictUpdate(DictSet(d, other[1].name, other[1].value), Tail(other))

(***************************************************************************)
(* The identity library                                                    *)
(***************************************************************************)
\* the notation strings of the identity library, in the library's order
E_1 ==
    <<"s", "u", "m", "(", "D", "i", "m", "^", "2", ")", " ", "=", " ", "r",
      "^", "2">>
E_2 ==
    <<"s", "u", "m", "(", "|", "D", "i", "m", "|", ")", " ", "=", " ", "r">>
E_3 ==
    <<"m", "a", "x", "(", "|", "D", "i", "m", "|", ")", " ", "=", " ", "r">>
E_4 ==
    <<"s", "u", "m", "(", "D", "i", "m", "^", "2", "/", "a", "^", "2", ")",
      " ", "=", " ", "1">>
E_5 ==
    <<"D", "i", "m", "[", "0", "]", "^", "2", "/", "a", "^", "2", " ", "+",
      " ", "D", "i", "m", "[", "1", "]", "^", "2", "/", "b", "^", "2", " ",
      "+", " ", "D", "i", "m", "[", "2", "]", "^", "2", "/", "c", "^", "2",
      " ", "=", " ", "1">>
E_6 ==
    <<"s", "u", "m", "(", "|", "D", "i", "m", "|", "^", "p", ")", " ", "=",
      " ", "r", "^", "p">>
E_7 ==
    <<"D", "i", "m", "[", "0", "]", "^", "2", " ", "+", " ", "D", "i", "m",
      "[", "1", "]", "^", "2", " ", "-", " ", "D", "i", "m", "[", "2", "]",
      "^", "2", " ", "=", " ", "1">>
E_8 ==
    <<"D", "i", "m", "[", "0", "]", "^", "2", " ", "+", " ", "D", "i", "m",
      "[", "1", "]", "^", "2", " ", "-", " ", "D", "i", "m", "[", "2", "]",
      "^", "2", " ", "=", " ", "-", "1">>
E_9 ==
    <<"s", "u", "m", "(", "D", "i", "m", ")", " ", "=", " ", "0">>
E_10 ==
    <<"(", "s", "q", "r", "t", "(", "D", "i", "m", "[", "0", "]", "^", "2",
      " ", "+", " ", "D", "i", "m", "[", "1", "]", "^", "2", ")", " ", "-",
      " ", "R", ")", "^", "2", " ", "+", " ", "D", "i", "m", "[", "2", "]",
      "^", "2", " ", "=", " ", "r", "^", "2">>
E_11 ==
    <<"D", "i", "m", "[", "0", "]", "^", "2", " ", "-", " ", "D", "i", "m",
      "[", "1", "]", "^", "2", " ", "=", " ", "D", "i", "m", "[", "2", "]">>
E_12 ==
    <<"s", "u", "m", "(", "D", "i", "m", "^", "2", ")", "^", "0", ".", "5",
      " ", "=", " ", "r">>
E_13 ==
    <<"s", "u", "m", "(", "|", "D", "i", "m", "|", "^", "(", "2", "/", "3",
      ")", ")", " ", "=", " ", "1">>

identities ==
    "Circle/Sphere" :>
        [expr |-> E_1, params |-> <<Param(<<"r">>, IntVal(5))>>]
    @@ "Diamond/Octahedron" :>
        [expr |-> E_2, params |-> <<Param(<<"r">>, IntVal(1))>>]
    @@ "Square/Cube" :>
        [expr |-> E_3, params |-> <<Param(<<"r">>, IntVal(1))>>]
    @@ "Ellipse/Ellipsoid" :>
        [expr |-> E_4, params |-> <<Param(<<"a">>, IntVal(2))>>]
    @@ "Scaled Ellipsoid" :>
        [expr |-> E_5, params |-> <<Param(<<"a">>, IntVal(3)),
            Param(<<"b">>, IntVal(2)),
            Param(<<"c">>, IntVal(1))>>, min_dim |-> 3]
    @@ "Superellipse/Superquadric" :>
        [expr |-> E_6, params |-> <<Param(<<"r">>, IntVal(1)),
            Param(<<"p">>, FloatVal(2, 5))>>]
    @@ "Hyperbola/Hyperboloid (1-sheet)" :>
        [expr |-> E_7, params |-> <<>>, min_dim |-> 3]
    @@ "Hyperboloid (2-sheet)" :>
        [expr |-> E_8, params |-> <<>>, min_dim |-> 3]
    @@ "Line/Plane/Hyperplane" :>
        [expr |-> E_9, params |-> <<>>]
    @@ "Torus" :>
        [expr |-> E_10, params |-> <<Param(<<"R">>, IntVal(3)),
            Param(<<"r">>, IntVal(1))>>, min_dim |-> 3]
    @@ "Hyperbolic Paraboloid" :>
        [expr |-> E_11, params |-> <<>>, min_dim |-> 3]
    @@ "Norm Ball" :>
        [expr |-> E_12, params |-> <<Param(<<"r">>, IntVal(5))>>]
    @@ "Astroid" :>
        [expr |-> E_13, params |-> <<>>]

IdentityNames == DOMAIN identities

\* a lookup that ignores the entry's min_dim
MinDimOfDefault(identity) == 1

\* identity.get('min_dim', 1)
MinDimOf(identity) ==
    IF "min_dim" \in DOMAIN identity THEN identity.min_dim ELSE 1

(***************************************************************************)
(* The calls the environment makes                                         *)
(***************************************************************************)
\* innermost texts of a generated notation; A_8 is the empty text
A_1 ==
    <<"D", "i", "m">>
A_2 ==
    <<"|", "D", "i", "m", "|", "^", "p">>
A_3 ==
    <<"D", "i", "m", "^", "2", "/", "a", "^", "2">>
A_4 ==
    <<"r", "*", "D", "i", "m">>
A_5 ==
    <<"D", "i", "m", "[", "0", "]", "*", "D", "i", "m">>
A_6 ==
    <<"D", "i", "m", "[", "2", "]">>
A_7 ==
    <<"D", "i", "m", "[", "1", "0", "]">>
A_8 ==
    <<>>

Args == {A_1, A_2, A_3, A_4, A_5, A_6, A_7, A_8}

\* the expressions of the module's own demonstration (T_6 is the
\* two-parameter example of the specification)
T_1 ==
    <<"s", "u", "m", "(", "D", "i", "m", "^", "2", ")", " ", "=", " ", "2",
      "5">>
T_2 ==
    <<"s", "u", "m", "(", "|", "D", "i", "m", "|", ")", " ", "=", " ", "1">>
T_3 ==
    <<"m", "a", "x", "(", "|", "D", "i", "m", "|", ")", " ", "=", " ", "1">>
T_4 ==
    <<"s", "u", "m", "(", "D", "i", "m", "^", "2", "/", "a", "^", "2", ")",
      " ", "=", " ", "1">>
T_5 ==
    <<"s", "u", "m", "(", "|", "D", "i", "m", "|", "^", "p", ")", " ", "=",
      " ", "1">>
T_6 ==
    <<"D", "i", "m", "[", "0", "]", "^", "2", "/", "a", "^", "2", " ", "+",
      " ", "D", "i", "m", "[", "1", "]", "^", "2", "/", "b", "^", "2", " ",
      "=", " ", "1">>

\* further notations a caller may write
\* a bare Dim outside any call
X_1 ==
    <<"D", "i", "m", " ", "+", " ", "1">>
\* two calls side by side
X_2 ==
    <<"s", "u", "m", "(", "D", "i", "m", ")", " ", "+", " ", "p", "r", "o",
      "d", "(", "D", "i", "m", ")">>
\* a call right after the letters of a function name
X_3 ==
    <<"m", "a", "x", "(", "D", "i", "m", ")", "*", "s", "u", "m", "s", "u",
      "m", "(", "D", "i", "m", ")">>
\* an index that is too large after a valid one
X_4 ==
    <<"D", "i", "m", "[", "0", "]", " ", "+", " ", "D", "i", "m", "[", "5",
      "]">>
\* an indexed placeholder that completes a function name
X_5 ==
    <<"m", "a", "D", "i", "m", "[", "0", "]", "(", "D", "i", "m", ")">>
\* a parameter name inside longer identifiers
X_6 ==
    <<"m", "i", "n", "(", "a", "_", "1", "*", "a", ")", " ", "+", " ", "M",
      "a", "x", "*", "a", "1">>
\* an index beyond the axis table before an index beyond the dimension
X_7 ==
    <<"D", "i", "m", "[", "1", "0", "]", " ", "+", " ", "D", "i", "m", "[",
      "1", "1", "]">>

Examples ==
    {T_1, T_2, T_3, T_4, T_5, T_6, X_1, X_2, X_3, X_4, X_5, X_6, X_7}

\* what a generated notation nests: the four dimension functions and a
\* plain parenthesis (the empty name)
Wrappers == FuncNames \cup {<<>>}

Wrap(w, e) == w \o <<"(">> \o e \o <<")">>

\* the texts with at most k nested wrappers around an innermost text
RECURSIVE Nested(_)
Nested(k) ==
    IF k = 0 THEN Args
    ELSE Nested(k - 1) \cup {Wrap(w, e) : w \in Wrappers, e \in Nested(k - 1)}

Generated == Nested(MaxNest)

LibraryExprs == {identities[n].expr : n \in IdentityNames}

\* the notation strings a caller passes to expand
Notations == Generated \cup Examples \cup LibraryExprs

Dimensions == 1..MaxDim

\* the parameter mappings a caller passes to expand
ParamChoices ==
    {<<>>,
     <<Param(<<"p">>, FloatVal(2, 5))>>,
     <<Param(<<"a">>, IntVal(3))>>}

\* the names a caller passes to expand_identity: the library's and one other
NameChoices == IdentityNames \cup {"Heart"}

\* the overrides a caller passes to expand_identity (None, or a mapping)
OverrideChoices ==
    {<<>>, <<Param(<<"r">>, IntVal(7)), Param(<<"k">>, IntVal(4))>>}

(***************************************************************************)
(* State                                                                   *)
(***************************************************************************)
VARIABLES
    pc,          \* where the running call stands: "idle" (no call),
                 \* "step1", "step2", "step3", "returned", "raised"
    op,          \* the public method called: "expand", "expand_identity"
    name,        \* expand_identity's name argument
    overrides,   \* expand_identity's params argument
    notation,    \* expand's expr_str argument, as the caller passed it
    dimension,   \* expand's dimension argument
    params,      \* expand's params argument
    expr_str,    \* expand's local expr_str
    iterations,  \* how many times the while loop of step 2 found a match
    indexed,     \* expr_str as step 1 left it
    expanded,    \* expr_str as step 2 left it
    result,      \* the string the call returned
    error        \* the exception the call raised, "none" when it did not

vars == <<pc, op, name, overrides, notation, dimension, params, expr_str,
          iterations, indexed, expanded, result, error>>

\* one builder shared by several callers
VARIABLES
    frame,            \* per caller: where its call stands, the arguments it
                      \* passed, expand's arguments, and the outcome
    local_expr,       \* per caller: expand's local expr_str
    self_identities,  \* the builder's field identities
    earlier           \* the record of one call that has finished

sharedvars == <<frame, local_expr, self_identities, earlier>>

\* one MathEnvironment
VARIABLES
    env_dimension,      \* the field dimension
    coord_symbols,      \* the field coord_symbols
    has_temp,           \* the attribute _temp_replacements exists
    temp_replacements,  \* the entries of _temp_replacements
    user_functions,     \* the field user_functions
    last,               \* the last call: its method, its text argument and
                        \* its outcome
    prev                \* how the call before the last one ended

envvars == <<env_dimension, coord_symbols, has_temp, temp_replacements,
             user_functions, last, prev>>

\* no environment has been constructed
NoEnvironment ==
    /\ env_dimension = 0
    /\ coord_symbols = <<>>
    /\ has_temp = FALSE
    /\ temp_replacements = <<>>
    /\ user_functions = <<>>
    /\ last = <<>>
    /\ prev = "none"

\* one ShapeManager, and the MainWindow that owns one
VARIABLES
    objects,        \* the Shape objects in existence, by identity
    created,        \* how many Shape objects have been constructed
    shapes,         \* ShapeManager.shapes: the identities, in list order
    shape_counter,  \* ShapeManager._shape_counter
    shape_widgets,  \* MainWindow.shape_widgets: each widget's shape
    current_mode,   \* MainWindow.current_mode
    plotted,        \* what the plot widget shows: per plotted shape its
                    \* name, colour and the coordinates it was evaluated at
    auto_ids,       \* the shapes add_shape has named itself since the
                    \* construction or the last clear_all, in order
    shape_op        \* the last call or event

shapevars == <<objects, created, shapes, shape_counter, shape_widgets,
               current_mode, plotted, auto_ids, shape_op>>

\* ShapeManager() with no call made, and no window event
NoShapes ==
    /\ objects = <<>>
    /\ created = 0
    /\ shapes = <<>>
    /\ shape_counter = 0
    /\ shape_widgets = <<>>
    /\ current_mode = "2d"
    /\ plotted = <<>>
    /\ auto_ids = <<>>
    /\ shape_op = "none"

\* the callers of the shared builder
Threads == {"t1", "t2"}

\* no call
Nothing ==
    [op |-> "none", name |-> "none", notation |-> <<>>, dimension |-> 0,
     params |-> <<>>]

NoFrame ==
    [pc |-> "idle", call |-> Nothing, passed |-> <<>>, notation |-> <<>>,
     dimension |-> 0, params |-> <<>>, result |-> <<>>, error |-> "none"]

NoRecord == [call |-> Nothing, result |-> <<>>, error |-> "none"]

\* the shared builder after construction, no call made
Constructed ==
    /\ frame = [t \in Threads |-> NoFrame]
    /\ local_expr = [t \in Threads |-> <<>>]
    /\ self_identities = identities
    /\ earlier = NoRecord

NoCall ==
    /\ pc = "idle"
    /\ op = "none"
    /\ name = "none"
    /\ overrides = <<>>
    /\ notation = <<>>
    /\ dimension = 0
    /\ params = <<>>
    /\ expr_str = <<>>
    /\ iterations = 0
    /\ indexed = <<>>
    /\ expanded = <<>>
    /\ result = <<>>
    /\ error = "none"

Init == NoCall /\ Constructed /\ NoEnvironment /\ NoShapes

\* expand's entry: the arguments are bound, nothing else has happened
Enter(n, d, p) ==
    /\ pc' = "step1"
    /\ notation' = n
    /\ dimension' = d
    /\ params' = p
    /\ expr_str' = n
    /\ UNCHANGED <<iterations, indexed, expanded, result, error>>

\* a caller calls expand(n, d, p)
Expand ==
    /\ pc = "idle"
    /\ \E n \in Notations, d \in Dimensions, p \in ParamChoices :
           /\ op' = "expand"
           /\ UNCHANGED <<name, overrides>>
           /\ Enter(n, d, p)
    /\ UNCHANGED <<sharedvars, envvars, shapevars>>

\* expand_identity(nm, d, ov) up to its call of expand
IdentityCall(nm, d, ov) ==
    /\ op' = "expand_identity"
    /\ name' = nm
    /\ overrides' = ov
    /\ IF nm \notin IdentityNames
       THEN /\ pc' = "raised"
            /\ error' = "ValueError: unknown identity"
            /\ dimension' = d
            /\ UNCHANGED <<notation, params, expr_str, iterations, indexed,
                           expanded, result>>
       ELSE IF d < MinDimOf(identities[nm])
       THEN /\ pc' = "raised"
            /\ error' = "ValueError: dimension too low"
            /\ dimension' = d
            /\ UNCHANGED <<notation, params, expr_str, iterations, indexed,
                           expanded, result>>
       ELSE Enter(identities[nm].expr, d,
                  DictUpdate(identities[nm].params, ov))

\* a caller calls expand_identity(nm, d, ov)
ExpandIdentity ==
    /\ pc = "idle"
    /\ \E nm \in NameChoices, d \in Dimensions, ov \in OverrideChoices :
           IdentityCall(nm, d, ov)
    /\ UNCHANGED <<sharedvars, envvars, shapevars>>

\* step 1 of expand
ReplaceIndexedDims ==
    /\ pc = "step1"
    /\ LET r == replace_indexed_dims(expr_str, dimension)
       IN  IF r.err = "none"
           THEN /\ expr_str' = r.out
                /\ indexed' = r.out
                /\ pc' = "step2"
                /\ UNCHANGED error
           ELSE /\ error' = r.err
                /\ pc' = "raised"
                /\ UNCHANGED <<expr_str, indexed>>
    /\ UNCHANGED <<op, name, overrides, notation, dimension, params,
                   iterations, expanded, result>>
    /\ UNCHANGED <<sharedvars, envvars, shapevars>>

\* step 2 of expand, one iteration of the loop that finds a match
ExpandFunctionsIter ==
    /\ pc = "step2"
    /\ LET m == SearchCall(expr_str)
       IN  /\ m.found
           /\ expr_str' = ExpandOnce(expr_str, m, dimension)
    /\ iterations' = iterations + 1
    /\ UNCHANGED <<pc, op, name, overrides, notation, dimension, params,
                   indexed, expanded, result, error>>
    /\ UNCHANGED <<sharedvars, envvars, shapevars>>

\* step 2 of expand, the iteration that finds no match and leaves the loop
ExpandFunctionsBreak ==
    /\ pc = "step2"
    /\ ~SearchCall(expr_str).found
    /\ expanded' = expr_str
    /\ pc' = "step3"
    /\ UNCHANGED <<op, name, overrides, notation, dimension, params,
                   expr_str, iterations, indexed, result, error>>
    /\ UNCHANGED <<sharedvars, envvars, shapevars>>

\* step 3 of expand, and its return
ReplaceParams ==
    /\ pc = "step3"
    /\ expr_str' = replace_params(expr_str, params)
    /\ result' = expr_str'
    /\ pc' = "returned"
    /\ UNCHANGED <<op, name, overrides, notation, dimension, params,
                   iterations, indexed, expanded, error>>
    /\ UNCHANGED <<sharedvars, envvars, shapevars>>

\* the caller has the outcome; the call's locals are gone
Finish ==
    /\ pc \in {"returned", "raised"}
    /\ pc' = "idle"
    /\ op' = "none"
    /\ name' = "none"
    /\ overrides' = <<>>
    /\ notation' = <<>>
    /\ dimension' = 0
    /\ params' = <<>>
    /\ expr_str' = <<>>
    /\ iterations' = 0
    /\ indexed' = <<>>
    /\ expanded' = <<>>
    /\ result' = <<>>
    /\ error' = "none"
    /\ UNCHANGED <<sharedvars, envvars, shapevars>>

Next ==
    \/ Expand
    \/ ExpandIdentity
    \/ ReplaceIndexedDims
    \/ ExpandFunctionsIter
    \/ ExpandFunctionsBreak
    \/ ReplaceParams
    \/ Finish

Spec == Init /\ [][Next]_vars

(***************************************************************************)
(* One builder shared by several callers                                   *)
(***************************************************************************)
ExpandCall(n, d, p) ==
    [op |-> "expand", name |-> "none", notation |-> n, dimension |-> d,
     params |-> p]

IdentityCallOf(nm, d, ov) ==
    [op |-> "expand_identity", name |-> nm, notation |-> <<>>,
     dimension |-> d, params |-> ov]

NamesCall ==
    [op |-> "get_identity_names", name |-> "none", notation |-> <<>>,
     dimension |-> 0, params |-> <<>>]

\* the calls the callers of the shared builder make
SharedExpandCalls ==
    {ExpandCall(T_4, 2, <<Param(<<"a">>, IntVal(3))>>),
     ExpandCall(T_4, 3, <<>>),
     ExpandCall(T_2, 2, <<>>),
     ExpandCall(X_2, 2, <<>>),
     ExpandCall(X_4, 3, <<>>)}

SharedIdentityCalls ==
    {IdentityCallOf("Circle/Sphere", 2, <<>>),
     IdentityCallOf("Circle/Sphere", 2,
                    <<Param(<<"r">>, IntVal(7)), Param(<<"k">>, IntVal(4))>>),
     IdentityCallOf("Superellipse/Superquadric", 2,
                    <<Param(<<"r">>, IntVal(7)), Param(<<"k">>, IntVal(4))>>),
     IdentityCallOf("Torus", 2, <<>>),
     IdentityCallOf("Heart", 3, <<>>)}

\* the keys of the identities dict, in the order of the dict literal
identity_order ==
    <<"Circle/Sphere", "Diamond/Octahedron", "Square/Cube",
      "Ellipse/Ellipsoid", "Scaled Ellipsoid", "Superellipse/Superquadric",
      "Hyperbola/Hyperboloid (1-sheet)", "Hyperboloid (2-sheet)",
      "Line/Plane/Hyperplane", "Torus", "Hyperbolic Paraboloid", "Norm Ball",
      "Astroid">>

\* one slot of working state for every caller
WorkShared(t) == "t1"

\* the slot of local_expr a call of caller t works on: expr_str is a
\* parameter and local of expand, so every call has its own
Work(t) == t

\* the library with the entry's defaults replaced by the merged mapping
LibraryAliased(lib, nm, final_params) ==
    [lib EXCEPT ![nm] = [@ EXCEPT !.params = final_params]]

\* the library after final_params = identity['params'].copy() and
\* final_params.update(params): the update reaches the copy alone
LibraryAfterCopy(lib, nm, final_params) == lib

Entered(c, n, d, p) ==
    [pc |-> "step1", call |-> c, passed |-> c.params, notation |-> n,
     dimension |-> d, params |-> p, result |-> <<>>, error |-> "none"]

Raised(c, e) ==
    [pc |-> "raised", call |-> c, passed |-> c.params, notation |-> <<>>,
     dimension |-> c.dimension, params |-> <<>>, result |-> <<>>,
     error |-> e]

\* caller t calls expand
CallExpand(t) ==
    /\ frame[t].pc = "idle"
    /\ \E c \in SharedExpandCalls :
           /\ frame' = [frame EXCEPT
                  ![t] = Entered(c, c.notation, c.dimension, c.params)]
           /\ local_expr' = [local_expr EXCEPT ![Work(t)] = c.notation]
    /\ UNCHANGED <<self_identities, earlier>>
    /\ UNCHANGED <<vars, envvars, shapevars>>

\* caller t calls expand_identity, up to its call of expand
CallExpandIdentity(t) ==
    /\ frame[t].pc = "idle"
    /\ \E c \in SharedIdentityCalls :
           IF c.name \notin DOMAIN self_identities
           THEN /\ frame' = [frame EXCEPT
                       ![t] = Raised(c, "ValueError: unknown identity")]
                /\ UNCHANGED <<local_expr, self_identities>>
           ELSE IF c.dimension < MinDimOf(self_identities[c.name])
           THEN /\ frame' = [frame EXCEPT
                       ![t] = Raised(c, "ValueError: dimension too low")]
                /\ UNCHANGED <<local_expr, self_identities>>
           ELSE LET identity == self_identities[c.name]
                    final_params == DictUpdate(identity.params, c.params)
                IN  /\ self_identities' =
                           LibraryAfterCopy(self_identities, c.name,
                                            final_params)
                    /\ frame' = [frame EXCEPT
                           ![t] = Entered(c, identity.expr, c.dimension,
                                          final_params)]
                    /\ local_expr' =
                           [local_expr EXCEPT ![Work(t)] = identity.expr]
    /\ UNCHANGED earlier
    /\ UNCHANGED <<vars, envvars, shapevars>>

\* caller t calls get_identity_names
CallGetIdentityNames(t) ==
    /\ frame[t].pc = "idle"
    /\ frame' = [frame EXCEPT
           ![t] = [NoFrame EXCEPT
                      !.pc = "returned",
                      !.call = NamesCall,
                      !.result = SelectSeq(identity_order,
                          LAMBDA nm : nm \in DOMAIN self_identities)]]
    /\ UNCHANGED <<local_expr, self_identities, earlier>>
    /\ UNCHANGED <<vars, envvars, shapevars>>

\* step 1 of caller t's call of expand
SharedReplaceIndexedDims(t) ==
    /\ frame[t].pc = "step1"
    /\ LET r == replace_indexed_dims(local_expr[Work(t)], frame[t].dimension)
       IN  IF r.err = "none"
           THEN /\ local_expr' = [local_expr EXCEPT ![Work(t)] = r.out]
                /\ frame' = [frame EXCEPT ![t].pc = "step2"]
           ELSE /\ frame' = [frame EXCEPT ![t].pc = "raised",
                                          ![t].error = r.err]
                /\ UNCHANGED local_expr
    /\ UNCHANGED <<self_identities, earlier>>
    /\ UNCHANGED <<vars, envvars, shapevars>>

\* step 2 of caller t's call, one iteration of the loop that finds a match
SharedExpandFunctionsIter(t) ==
    /\ frame[t].pc = "step2"
    /\ LET m == SearchCall(local_expr[Work(t)])
       IN  /\ m.found
           /\ local_expr' = [local_expr EXCEPT
                  ![Work(t)] = ExpandOnce(local_expr[Work(t)], m,
                                          frame[t].dimension)]
    /\ UNCHANGED <<frame, self_identities, earlier>>
    /\ UNCHANGED <<vars, envvars, shapevars>>

\* step 2 of caller t's call, the iteration that leaves the loop
SharedExpandFunctionsBreak(t) ==
    /\ frame[t].pc = "step2"
    /\ ~SearchCall(local_expr[Work(t)]).found
    /\ frame' = [frame EXCEPT ![t].pc = "step3"]
    /\ UNCHANGED <<local_expr, self_identities, earlier>>
    /\ UNCHANGED <<vars, envvars, shapevars>>

\* step 3 of caller t's call, and its return
SharedReplaceParams(t) ==
    /\ frame[t].pc = "step3"
    /\ LET out == replace_params(local_expr[Work(t)], frame[t].params)
       IN  /\ local_expr' = [local_expr EXCEPT ![Work(t)] = out]
           /\ frame' = [frame EXCEPT ![t].pc = "returned", ![t].result = out]
    /\ UNCHANGED <<self_identities, earlier>>
    /\ UNCHANGED <<vars, envvars, shapevars>>

\* caller t has the outcome of its call; the call's locals are gone, and
\* the observer may keep the outcome as the record of an earlier call
Return(t) ==
    /\ frame[t].pc \in {"returned", "raised"}
    /\ frame' = [frame EXCEPT ![t] = NoFrame]
    /\ local_expr' = [local_expr EXCEPT ![Work(t)] = <<>>]
    /\ \/ UNCHANGED earlier
       \/ /\ earlier = NoRecord
          /\ earlier' = [call |-> frame[t].call, result |-> frame[t].result,
                         error |-> frame[t].error]
    /\ UNCHANGED self_identities
    /\ UNCHANGED <<vars, envvars, shapevars>>

SharedInit == NoCall /\ Constructed /\ NoEnvironment /\ NoShapes

SharedNext ==
    \/ \E t \in Threads : CallExpand(t)
    \/ \E t \in Threads : CallExpandIdentity(t)
    \/ \E t \in Threads : CallGetIdentityNames(t)
    \/ \E t \in Threads : SharedReplaceIndexedDims(t)
    \/ \E t \in Threads : SharedExpandFunctionsIter(t)
    \/ \E t \in Threads : SharedExpandFunctionsBreak(t)
    \/ \E t \in Threads : SharedReplaceParams(t)
    \/ \E t \in Threads : Return(t)

SharedSpec == SharedInit /\ [][SharedNext]_<<vars, sharedvars>>

(***************************************************************************)
(* MathEnvironment: SymPy values                                           *)
(***************************************************************************)
\* a SymPy object: an expression read from a text (kind "expr"), or a
\* compound (Add, Mul, Max, Min, Eq) of the objects args; None is "none"
NoValue == [kind |-> "none", text |-> <<>>, args |-> <<>>]
Expression(text) == [kind |-> "expr", text |-> text, args |-> <<>>]
Compound(kind, args) == [kind |-> kind, text |-> <<>>, args |-> args]

\* s.strip(), for texts whose only whitespace is the space
Strip(s) ==
    LET I == {i \in 1..Len(s) : s[i] # " "}
    IN  IF I = {} THEN <<>>
        ELSE SubSeq(s, Least(I), CHOOSE x \in I : \A y \in I : y <= x)

\* the parentheses of s from position i on are balanced, depth being open
RECURSIVE Balanced(_, _, _)
Balanced(s, i, depth) ==
    IF i > Len(s) THEN depth = 0
    ELSE IF s[i] = "(" THEN Balanced(s, i + 1, depth + 1)
    ELSE IF s[i] = ")" THEN depth > 0 /\ Balanced(s, i + 1, depth - 1)
    ELSE Balanced(s, i + 1, depth)

\* Python's parser accepts the text as an expression SymPy can build: not
\* blank, parentheses balanced, no = sign, placeholder mark or subscript,
\* no binary operator at either end
WellFormed(text) ==
    LET t == Strip(text)
    IN  /\ t # <<>>
        /\ \A i \in 1..Len(t) : t[i] \notin {"=", "@", "[", "]"}
        /\ Balanced(t, 1, 0)
        /\ t[1] \notin {"*", "/", ")"}
        /\ t[Len(t)] \notin {"+", "-", "*", "/", "("}

\* sympify(text) and parse_expr(text, ...): the object, or the error raised
sympify(text) ==
    IF WellFormed(text) THEN [err |-> "none", val |-> Expression(Strip(text))]
    ELSE [err |-> "SympifyError", val |-> NoValue]

parse_expr(text) ==
    IF WellFormed(text) THEN [err |-> "none", val |-> Expression(Strip(text))]
    ELSE [err |-> "SyntaxError", val |-> NoValue]

(***************************************************************************)
(* MathEnvironment: _make_coord_symbols, _replace_dimension_agnostic       *)
(***************************************************************************)
env_coord_names == <<<<"x">>, <<"y">>, <<"z">>, <<"w">>, <<"u">>, <<"v">>>>

\* _make_coord_symbols(dim), dim >= 1: symbols() of one name gives a lone
\* Symbol, which cannot be iterated, and of several names a tuple
make_coord_symbols(dim) ==
    [iterable |-> dim # 1,
     names |-> IF dim <= Len(env_coord_names)
               THEN SubSeq(env_coord_names, 1, dim)
               ELSE [i \in 1..dim |-> <<"n">> \o NatStr(i - 1)]]

\* the macros in the order _replace_dimension_agnostic treats them: the
\* name the pattern looks for, the placeholder, the SymPy object it builds
macros ==
    <<[name |-> <<"s", "u", "m">>,
       key |-> <<"@", "@", "S", "U", "M", "@", "@">>, kind |-> "Add"],
      [name |-> <<"p", "r", "o", "d", "u", "c", "t">>,
       key |-> <<"@", "@", "P", "R", "O", "D", "@", "@">>, kind |-> "Mul"],
      [name |-> <<"m", "a", "x">>,
       key |-> <<"@", "@", "M", "A", "X", "@", "@">>, kind |-> "Max"],
      [name |-> <<"m", "i", "n">>,
       key |-> <<"@", "@", "M", "I", "N", "@", "@">>, kind |-> "Min"]>>

\* re.search of  word\((.*?)\)  in s: the leftmost word( that has a closing
\* parenthesis after it, up to the first such parenthesis
MacroSearch(s, word) ==
    LET open == word \o <<"(">>
        Closers(i) == {j \in (i + Len(open))..Len(s) : s[j] = ")"}
        M == {i \in 1..Len(s) : StartsWithAt(s, i, open) /\ Closers(i) # {}}
    IN  IF M = {} THEN [found |-> FALSE, start |-> 0, end |-> 0, inner |-> <<>>]
        ELSE LET i == Least(M)
                 e == Least(Closers(i))
             IN  [found |-> TRUE, start |-> i, end |-> e,
                  inner |-> SubSeq(s, i + Len(open), e - 1)]

\* d[key] = val
Store(d, key, val) ==
    [k \in DOMAIN d \cup {key} |-> IF k = key THEN val ELSE d[k]]

\* one iteration of the while loop of macro k whose search gave m; st is
\* the call's expr_str with the attribute _temp_replacements (has: it
\* exists, map: its entries) and the error raised, names the coordinate
\* symbols
RECURSIVE MacroLoop(_, _, _)
MacroIteration(k, st, names, m) ==
    LET terms == [i \in 1..Len(names) |->
                     sympify(StrReplace(m.inner, <<"n">>, names[i]))]
        spliced == SubSeq(st.str, 1, m.start - 1) \o macros[k].key
                       \o SubSeq(st.str, m.end + 1, Len(st.str))
    IN  IF ~m.found THEN st
        ELSE IF \E i \in 1..Len(names) : terms[i].err # "none"
        THEN [st EXCEPT !.err = "SympifyError"]
        ELSE IF k # 1 /\ ~st.has
        THEN [st EXCEPT !.err = "AttributeError", !.str = spliced]
        ELSE MacroLoop(k,
                 [err |-> "none", str |-> spliced, has |-> TRUE,
                  map |-> Store(st.map, macros[k].key,
                              Compound(macros[k].kind,
                                  [i \in 1..Len(names) |-> terms[i].val]))],
                 names)

\* the while loop of macro k
MacroLoop(k, st, names) ==
    MacroIteration(k, st, names, MacroSearch(st.str, macros[k].name))

\* the for loop that replaces n[i] by the i-th coordinate symbol
RECURSIVE replace_indexed(_, _, _)
replace_indexed(s, names, i) ==
    IF i > Len(names) THEN s
    ELSE replace_indexed(
             StrReplace(s, <<"n", "[">> \o NatStr(i - 1) \o <<"]">>, names[i]),
             names, i + 1)

\* re.split with the placeholders captured: the texts between the
\* placeholders and the placeholders, in order
RECURSIVE SplitParts(_)
SplitParts(s) ==
    LET M == {i \in 1..Len(s) :
                 \E k \in 1..Len(macros) : StartsWithAt(s, i, macros[k].key)}
    IN  IF M = {} THEN <<s>>
        ELSE LET i == Least(M)
                 k == CHOOSE k \in 1..Len(macros) :
                          StartsWithAt(s, i, macros[k].key)
             IN  <<SubSeq(s, 1, i - 1), macros[k].key>>
                     \o SplitParts(SubSeq(s, i + Len(macros[k].key), Len(s)))

\* the loop over the parts: acc is expr_final so far (None at first)
RECURSIVE Resolve(_, _, _)
Resolve(parts, map, acc) ==
    IF parts = <<>> THEN [err |-> "none", val |-> acc]
    ELSE LET p == Head(parts)
             e == IF p \in DOMAIN map THEN [err |-> "none", val |-> map[p]]
                  ELSE sympify(p)
         IN  IF p \notin DOMAIN map /\ Strip(p) = <<>>
             THEN Resolve(Tail(parts), map, acc)
             ELSE IF e.err # "none" THEN [err |-> e.err, val |-> NoValue]
             ELSE Resolve(Tail(parts), map,
                      IF acc = NoValue THEN e.val
                      ELSE Compound("Add", <<acc, e.val>>))

\* the four while loops in turn
RECURSIVE AllMacros(_, _, _)
AllMacros(k, st, names) ==
    IF k > Len(macros) THEN st
    ELSE AllMacros(k + 1, MacroLoop(k, st, names), names)

\* what _replace_dimension_agnostic gives: the string (isStr) or SymPy
\* object it returns, or the error it raises, and the attribute
\* _temp_replacements as the call leaves it
Gives(err, isStr, str, val, has, map) ==
    [err |-> err, isStr |-> isStr, str |-> str, val |-> val, has |-> has,
     map |-> map]

\* the end of _replace_dimension_agnostic: the placeholders resolved to r
Resolved(st, r) ==
    IF r.err # "none" THEN Gives(r.err, FALSE, <<>>, NoValue, st.has, st.map)
    ELSE Gives("none", FALSE, <<>>, r.val, TRUE, <<>>)

\* _replace_dimension_agnostic after its while loops, s2 being expr_str
\* after the n[i] loop
AfterMacros(st, s2) ==
    IF st.err # "none" THEN Gives(st.err, FALSE, <<>>, NoValue, st.has, st.map)
    ELSE IF st.has /\ DOMAIN st.map # {}
    THEN Resolved(st, Resolve(SplitParts(s2), st.map, NoValue))
    ELSE Gives("none", TRUE, s2, NoValue, st.has, st.map)

AfterLoops(st, names) == AfterMacros(st, replace_indexed(st.str, names, 1))

\* _replace_dimension_agnostic(text) on an environment with the coordinate
\* symbols coords and the attribute (has, map)
replace_dimension_agnostic(text, coords, has, map) ==
    IF ~coords.iterable THEN Gives("TypeError", FALSE, <<>>, NoValue, has, map)
    ELSE AfterLoops(AllMacros(1, [err |-> "none", str |-> text, has |-> has,
                                  map |-> map], coords.names),
                    coords.names)

\* the test of the parts left without its raise
NotTwoPartsIgnored(eqs) == FALSE

\* len(parts) != 2, eqs being the positions of the = signs (at least one)
NotTwoParts(eqs) == Cardinality(eqs) # 1

\* parse after its call of _replace_dimension_agnostic, which gave r
Parsed(r) ==
    LET eqs == {i \in 1..Len(r.str) : r.str[i] = "="}
        left == parse_expr(SubSeq(r.str, 1, Least(eqs) - 1))
        right == parse_expr(SubSeq(r.str, Least(eqs) + 1, Len(r.str)))
        whole == parse_expr(r.str)
        Out(err, val) ==
            [err |-> err, val |-> val, has |-> r.has, map |-> r.map]
    IN  IF r.err # "none" THEN Out(r.err, NoValue)
        ELSE IF ~r.isStr THEN Out("none", r.val)
        ELSE IF eqs = {} THEN Out(whole.err, whole.val)
        ELSE IF NotTwoParts(eqs) THEN Out("ValueError", NoValue)
        ELSE IF left.err # "none" THEN Out(left.err, NoValue)
        ELSE IF right.err # "none" THEN Out(right.err, NoValue)
        ELSE Out("none", Compound("Eq", <<left.val, right.val>>))

\* parse(text) on such an environment: the object it returns or the error
\* it raises, and the attribute afterwards
parse(text, coords, has, map) ==
    Parsed(replace_dimension_agnostic(
               StrReplace(text, <<"^">>, <<"*", "*">>), coords, has, map))

\* re.match of  (\w+)\((.*?)\)\s*=\s*(.+)  on a definition: the name, the
\* text between the parentheses and the text after the = sign
DefinitionMatch(d) ==
    LET N == {i \in 1..Len(d) : ~IsWordChar(d[i])}
        w == IF N = {} THEN Len(d) ELSE Least(N) - 1
        After(j) == {q \in (j + 1)..Len(d) : d[q] # " "}
        J == {j \in (w + 2)..Len(d) :
                 /\ d[j] = ")"
                 /\ After(j) # {}
                 /\ d[Least(After(j))] = "="
                 /\ Least(After(j)) < Len(d)}
        j == Least(J)
        rest == SubSeq(d, Least(After(j)) + 1, Len(d))
    IN  IF w = 0 \/ w + 1 > Len(d) \/ d[w + 1] # "(" \/ J = {}
        THEN [found |-> FALSE, func_name |-> <<>>, params |-> <<>>,
              body |-> <<>>]
        ELSE [found |-> TRUE, func_name |-> SubSeq(d, 1, w),
              params |-> SubSeq(d, w + 2, j - 1),
              body |-> IF Strip(rest) = <<>> THEN rest
                       ELSE SubSeq(rest, Least({q \in 1..Len(rest) :
                                                   rest[q] # " "}),
                                   Len(rest))]

(***************************************************************************)
(* MathEnvironment: parse_multi_form, solve_system                         *)
(***************************************************************************)
\* s.split('='): the texts between the = signs, in order
RECURSIVE SplitEq(_)
SplitEq(s) ==
    LET E == {i \in 1..Len(s) : s[i] = "="}
    IN  IF E = {} THEN <<s>>
        ELSE <<SubSeq(s, 1, Least(E) - 1)>>
                 \o SplitEq(SubSeq(s, Least(E) + 1, Len(s)))

\* a Python list of SymPy objects
ListOf(vals) == Compound("list", vals)

\* [self.parse(p.strip()) for p in parts]: acc holds the objects parsed so
\* far, r is what the parse of the first of parts gave; the first parse
\* that raises ends the comprehension
RECURSIVE ParseParts(_, _, _, _, _)
ParsedPart(parts, coords, acc, r) ==
    IF r.err # "none"
    THEN [err |-> r.err, vals |-> <<>>, has |-> r.has, map |-> r.map]
    ELSE ParseParts(Tail(parts), coords, r.has, r.map, Append(acc, r.val))

ParseParts(parts, coords, has, map, acc) ==
    IF parts = <<>>
    THEN [err |-> "none", vals |-> acc, has |-> has, map |-> map]
    ELSE ParsedPart(parts, coords, acc,
                    parse(Strip(Head(parts)), coords, has, map))

\* [Eq(parsed_parts[0], parsed_parts[i + 1]) ...]: every part equated to
\* the first one
PairsWithFirst(vals) ==
    [i \in 1..(Len(vals) - 1) |-> Compound("Eq", <<vals[1], vals[i + 1]>>)]

\* [Eq(parsed_parts[i], parsed_parts[i + 1]) for i in range(len - 1)]
Pairs(vals) ==
    [i \in 1..(Len(vals) - 1) |-> Compound("Eq", <<vals[i], vals[i + 1]>>)]

\* parse_multi_form once its parts are parsed to r
MultiForm(r) ==
    [err |-> r.err,
     val |-> IF r.err # "none" THEN NoValue ELSE ListOf(Pairs(r.vals)),
     has |-> r.has, map |-> r.map]

\* parse_multi_form(text): the list it returns or the error it raises, and
\* the attribute _temp_replacements afterwards
parse_multi_form(text, coords, has, map) ==
    IF Len(SplitEq(text)) < 2
    THEN [err |-> "ValueError", val |-> NoValue, has |-> has, map |-> map]
    ELSE MultiForm(ParseParts(SplitEq(text), coords, has, map, <<>>))

\* equation_str.count('=')
CountEq(text) == Cardinality({i \in 1..Len(text) : text[i] = "="})

\* [self.parse(equation_str)]
Single(r) ==
    [err |-> r.err,
     val |-> IF r.err # "none" THEN NoValue ELSE ListOf(<<r.val>>),
     has |-> r.has, map |-> r.map]

\* solve_system(text, *variables) for a text that is a str: the list
\* `equations` it hands to SymPy's solve, or the error raised before that
solve_system_equations(text, coords, has, map) ==
    IF CountEq(text) > 1 THEN parse_multi_form(text, coords, has, map)
    ELSE Single(parse(text, coords, has, map))

(***************************************************************************)
(* MathEnvironment: the calls on one environment                           *)
(***************************************************************************)
MaxEnvDim == 3

EnvDimensions == 1..MaxEnvDim

\* the texts the callers pass to parse
N_1 ==
    <<"s", "u", "m", "(", "n", "^", "2", ")", " ", "=", " ", "2", "5">>
N_2 ==
    <<"p", "r", "o", "d", "u", "c", "t", "(", "n", ")", " ", "=", " ", "1",
      "0">>
N_3 ==
    <<"s", "u", "m", "(", "a", "b", "s", "(", "n", ")", ")", " ", "=", " ",
      "1">>
N_4 ==
    <<"x", "^", "2", " ", "+", " ", "y", "^", "2", " ", "=", " ", "2", "5">>
N_5 ==
    <<"s", "u", "m", "(", "n", "^", "2", ")">>
N_6 ==
    <<"s", "u", "m", "(", "n", "^", "2", ")", " ", "-", " ", "r", "^", "2">>
N_7 ==
    <<"p", "r", "o", "d", "u", "c", "t", "(", "n", ")">>
N_8 ==
    <<"m", "a", "x", "(", "n", ")">>
N_9 ==
    <<"n", "[", "0", "]", " ", "+", " ", "n", "[", "1", "]">>
N_10 ==
    <<"x", " ", "=", " ", "y", " ", "=", " ", "1">>
N_11 ==
    <<"s", "u", "m", "(", "n", ")", " ", "+", " ", "s", "u", "m", "(", "n",
      "^", "2", ")">>
N_12 ==
    <<"s", "u", "m", "(", "n", "^", "2", ")", " ", "-", " ", "p", "r", "o",
      "d", "u", "c", "t", "(", "n", ")">>
N_13 ==
    <<"x", " ", "+", " ", "1">>

EnvExprs ==
    {N_1, N_2, N_3, N_4, N_5, N_6, N_7, N_8, N_9, N_10, N_11, N_12, N_13}

\* the chains the callers pass to parse_multi_form and solve_system
N_14 ==
    <<"x", "^", "2", " ", "=", " ", "y", " ", "+", " ", "1", " ", "=", " ",
      "z", " ", "=", " ", "4">>
N_15 ==
    <<"s", "u", "m", "(", "n", "^", "2", ")", " ", "=", " ", "r", "^", "2",
      " ", "=", " ", "2", "5">>

EnvChains == {N_1, N_4, N_7, N_10, N_13, N_14, N_15}

\* the texts the callers pass to define_function
D_1 ==
    <<"C", "i", "r", "c", "l", "e", "(", "r", ")", " ", "=", " ", "s", "u",
      "m", "(", "n", "^", "2", ")", " ", "-", " ", "r", "^", "2">>
D_2 ==
    <<"S", "q", "u", "a", "r", "e", "(", "s", ")", " ", "=", " ", "s", "u",
      "m", "(", "a", "b", "s", "(", "n", ")", ")", " ", "-", " ", "s">>
D_3 ==
    <<"f", "(", "x", ")">>

EnvDefinitions == {D_1, D_2, D_3}

NoLast == [op |-> "none", text |-> <<>>, err |-> "none", val |-> NoValue]

\* MathEnvironment(dimension = d)
Fresh(d) ==
    /\ env_dimension = d
    /\ coord_symbols = make_coord_symbols(d)
    /\ has_temp = FALSE
    /\ temp_replacements = <<>>
    /\ user_functions = <<>>
    /\ last = NoLast
    /\ prev = "none"

\* how the last call ended
Ended ==
    IF last.op = "none" THEN "none"
    ELSE IF last.err = "none" THEN "returned"
    ELSE "raised"

\* parse(e) has given r
ParseDone(e, r) ==
    /\ has_temp' = r.has
    /\ temp_replacements' = r.map
    /\ last' = [op |-> "parse", text |-> e, err |-> r.err, val |-> r.val]
    /\ prev' = Ended
    /\ UNCHANGED <<env_dimension, coord_symbols, user_functions>>
    /\ UNCHANGED <<vars, sharedvars, shapevars>>

\* a caller calls parse(e)
EnvParse ==
    \E e \in EnvExprs :
        ParseDone(e, parse(e, coord_symbols, has_temp, temp_replacements))

\* a caller calls set_dimension(d)
EnvSetDimension ==
    \E d \in EnvDimensions :
        /\ env_dimension' = d
        /\ coord_symbols' = make_coord_symbols(d)
        /\ last' = [NoLast EXCEPT !.op = "set_dimension"]
        /\ prev' = Ended
        /\ UNCHANGED <<has_temp, temp_replacements, user_functions>>
        /\ UNCHANGED <<vars, sharedvars, shapevars>>

\* define_function(d) after its re.match, which gave m, and its call of
\* parse, which gave r; of the stored entry, params is kept as the text
\* between the parentheses
DefineDone(d, m, r) ==
    /\ IF ~m.found
       THEN /\ last' = [op |-> "define_function", text |-> d,
                        err |-> "ValueError", val |-> NoValue]
            /\ UNCHANGED <<has_temp, temp_replacements, user_functions>>
       ELSE /\ has_temp' = r.has
            /\ temp_replacements' = r.map
            /\ last' = [op |-> "define_function", text |-> d, err |-> r.err,
                        val |-> NoValue]
            /\ user_functions' =
                   IF r.err # "none" THEN user_functions
                   ELSE Store(user_functions, m.func_name,
                              [params |-> m.params, expr |-> r.val,
                               definition |-> d])
    /\ prev' = Ended
    /\ UNCHANGED <<env_dimension, coord_symbols>>
    /\ UNCHANGED <<vars, sharedvars, shapevars>>

DefineMatched(d, m) ==
    DefineDone(d, m,
               parse(m.body, coord_symbols, has_temp, temp_replacements))

\* a caller calls define_function(d)
EnvDefineFunction ==
    \E d \in EnvDefinitions : DefineMatched(d, DefinitionMatch(d))

\* a call that leaves the dimension and the user functions alone has
\* given r
CallDone(o, e, r) ==
    /\ has_temp' = r.has
    /\ temp_replacements' = r.map
    /\ last' = [op |-> o, text |-> e, err |-> r.err, val |-> r.val]
    /\ prev' = Ended
    /\ UNCHANGED <<env_dimension, coord_symbols, user_functions>>
    /\ UNCHANGED <<vars, sharedvars, shapevars>>

\* a caller calls parse_multi_form(e)
EnvParseMultiForm ==
    \E e \in EnvChains :
        CallDone("parse_multi_form", e,
                 parse_multi_form(e, coord_symbols, has_temp,
                                  temp_replacements))

\* a caller calls solve_system(e, ...): last.val is the list handed to
\* SymPy's solve, whose answer is SymPy's and is left open
EnvSolveSystem ==
    \E e \in EnvChains :
        CallDone("solve_system", e,
                 solve_system_equations(e, coord_symbols, has_temp,
                                        temp_replacements))

EnvInit ==
    /\ NoCall
    /\ Constructed
    /\ \E d \in EnvDimensions : Fresh(d)
    /\ NoShapes

EnvNext ==
    \/ EnvParse
    \/ EnvSetDimension
    \/ EnvDefineFunction
    \/ EnvParseMultiForm
    \/ EnvSolveSystem

EnvSpec == EnvInit /\ [][EnvNext]_<<vars, sharedvars, envvars>>

(***************************************************************************)
(* Shape and ShapeManager                                                  *)
(***************************************************************************)
MaxCreated == 4

\* the optional name argument of add_shape
NoName == [given |-> FALSE, text |-> <<>>]
Named(text) == [given |-> TRUE, text |-> text]

\* Shape(equation_str=..., equation=..., name=..., color=...): the other
\* fields take the defaults of the dataclass; the floats of the quaternion
\* are kept as the terms that give them
Shape(equation_str, equation, nm, color) ==
    [equation_str |-> equation_str, equation |-> equation, name |-> nm,
     translation |-> <<0, 0, 0>>, rotation_euler |-> <<0, 0, 0>>,
     rotation_quat |-> <<"1", "0", "0", "0">>, dimension |-> 2,
     visible |-> TRUE, color |-> color]

colors ==
    <<"blue", "red", "green", "purple", "orange", "cyan", "magenta">>

\* colors[len(self.shapes) % len(colors)]
ColorFor(list) == colors[(Len(list) % Len(colors)) + 1]

\* the counter taken from the length of the list
NextCounterByLength(counter, list) == Len(list) + 1

\* self._shape_counter += 1
NextCounter(counter, list) == counter + 1

\* f"Shape {self._shape_counter}"
AutoName(counter) == <<"S", "h", "a", "p", "e", " ">> \o NatStr(counter)

\* add_shape(equation_str, equation, nm) on a manager with the list and the
\* counter given: the counter afterwards and the Shape it constructs
add_shape(list, counter, equation_str, equation, nm) ==
    LET c == IF nm.given THEN counter ELSE NextCounter(counter, list)
    IN  [counter |-> c,
         shape |-> Shape(equation_str, equation,
                         IF nm.given THEN nm.text ELSE AutoName(c),
                         ColorFor(list))]

\* list.pop(i), counted from 1
RemoveAt(list, i) == SubSeq(list, 1, i - 1) \o SubSeq(list, i + 1, Len(list))

\* remove_shape(shape): `in` and list.remove compare with the dataclass's
\* __eq__, field by field, and remove the first element that is equal
remove_shape(list, objs, id) ==
    LET I == {i \in 1..Len(list) : objs[list[i]] = objs[id]}
    IN  IF I = {} THEN list ELSE RemoveAt(list, Least(I))

\* get_visible_shapes()
RECURSIVE get_visible_shapes(_, _)
get_visible_shapes(list, objs) ==
    IF list = <<>> THEN <<>>
    ELSE (IF objs[Head(list)].visible THEN <<Head(list)>> ELSE <<>>)
             \o get_visible_shapes(Tail(list), objs)

\* the equation a caller passes to add_shape, with its text
CircleEquation ==
    [str |-> N_4, eq |-> parse(N_4, make_coord_symbols(2), FALSE, <<>>).val]

(***************************************************************************)
(* ShapeManager: the calls on one manager                                  *)
(***************************************************************************)
\* a caller calls add_shape(e.str, e.eq, nm) and keeps the Shape returned
Added(e, nm, r) ==
    /\ created < MaxCreated
    /\ created' = created + 1
    /\ objects' = Store(objects, created + 1, r.shape)
    /\ shapes' = Append(shapes, created + 1)
    /\ shape_counter' = r.counter
    /\ auto_ids' = IF nm.given THEN auto_ids
                   ELSE Append(auto_ids, created + 1)
    /\ shape_op' = "add_shape"
    /\ UNCHANGED <<shape_widgets, current_mode, plotted>>
    /\ UNCHANGED <<vars, sharedvars, envvars>>

AddShape ==
    \E nm \in {NoName, Named(<<"A">>)} :
        Added(CircleEquation, nm,
              add_shape(shapes, shape_counter, CircleEquation.str,
                        CircleEquation.eq, nm))

\* a caller calls remove_shape with a Shape it holds
RemoveShape ==
    \E id \in DOMAIN objects :
        /\ shapes' = remove_shape(shapes, objects, id)
        /\ shape_op' = "remove_shape"
        /\ UNCHANGED <<objects, created, shape_counter, shape_widgets,
                       current_mode, plotted, auto_ids>>
        /\ UNCHANGED <<vars, sharedvars, envvars>>

\* a caller calls clear_all()
ClearAll ==
    /\ shapes' = <<>>
    /\ shape_counter' = 0
    /\ auto_ids' = <<>>
    /\ shape_op' = "clear_all"
    /\ UNCHANGED <<objects, created, shape_widgets, current_mode, plotted>>
    /\ UNCHANGED <<vars, sharedvars, envvars>>

ManagerInit == NoCall /\ Constructed /\ NoEnvironment /\ NoShapes

ManagerNext ==
    \/ AddShape
    \/ RemoveShape
    \/ ClearAll

ManagerSpec ==
    ManagerInit /\ [][ManagerNext]_<<vars, sharedvars, envvars, shapevars>>

(***************************************************************************)
(* Shape.set_rotation_euler, Shape.quat_to_euler; QtPlotWidget             *)
(***************************************************************************)
\* math.cos and math.sin of an angle in degrees that is a multiple of 90,
\* to the precision of the floats
Cos(deg) ==
    LET d == deg % 360
    IN  IF d = 0 THEN 1 ELSE IF d = 180 THEN -1 ELSE 0

Sin(deg) ==
    LET d == deg % 360
    IN  IF d = 90 THEN 1 ELSE IF d = 270 THEN -1 ELSE 0

\* math.cos(y_rad / 2) and math.sin(y_rad / 2) as terms
HalfCos(yaw) == IF yaw = 0 THEN "1" ELSE "cos(pi/4)"
HalfSin(yaw) == IF yaw = 0 THEN "0" ELSE "sin(pi/4)"

\* set_rotation_euler(pitch, roll, yaw) for pitch = roll = 0 and yaw 0 or
\* 90: the two branches of the conversion then give the same quaternion
set_rotation_euler(sh, pitch, roll, yaw) ==
    [sh EXCEPT !.rotation_euler = <<pitch, roll, yaw>>,
               !.rotation_quat = <<HalfCos(yaw), "0", "0", HalfSin(yaw)>>]

\* quat_to_euler() for the quaternions (1, 0, 0, 0) and (0, 0, 0, 1):
\* (pitch, roll, yaw) in degrees
quat_to_euler(q) ==
    IF q = <<"1", "0", "0", "0">> THEN <<0, 0, 0>> ELSE <<0, 0, 180>>

\* the sample points of the grids, a few of np.meshgrid's
Grid2 == <<<<1, 0>>, <<0, 1>>>>
Grid3 == <<<<1, 0, 0>>, <<0, 1, 0>>, <<0, 0, 1>>>>

\* _plot_shapes_2d: the coordinates the function of sh is evaluated at
Transformed2d(sh) ==
    [k \in 1..Len(Grid2) |->
        LET X == Grid2[k][1] - sh.translation[1]
            Y == Grid2[k][2] - sh.translation[2]
            theta == sh.rotation_euler[3]
        IN  IF theta # 0
            THEN <<X * Cos(0 - theta) - Y * Sin(0 - theta),
                   X * Sin(0 - theta) + Y * Cos(0 - theta)>>
            ELSE <<X, Y>>]

\* _plot_shapes_3d: the coordinates the function of sh is evaluated at
Transformed3d(sh) ==
    [k \in 1..Len(Grid3) |->
        <<Grid3[k][1] - sh.translation[1], Grid3[k][2] - sh.translation[2],
          Grid3[k][3] - sh.translation[3]>>]

\* plot_shapes(ids): what the axes show afterwards, hidden shapes skipped
plot_shapes(ids, objs, mode) ==
    LET shown == get_visible_shapes(ids, objs)
    IN  [k \in 1..Len(shown) |->
            [name |-> objs[shown[k]].name, color |-> objs[shown[k]].color,
             at |-> IF mode = "2d" THEN Transformed2d(objs[shown[k]])
                    ELSE Transformed3d(objs[shown[k]])]]

(***************************************************************************)
(* MainWindow and its ShapeWidgets: the events                             *)
(***************************************************************************)
MaxShapes == 2

\* update_plot(): what the plot widget shows afterwards (nothing after
\* clear_plot)
update_plot(list, objs, mode) ==
    IF Len(get_visible_shapes(list, objs)) = 0 THEN <<>>
    ELSE plot_shapes(get_visible_shapes(list, objs), objs, mode)

\* the texts typed into the equation field
WindowTexts == {N_4, N_1, <<" ">>}

\* the values typed into the fields of a widget: translation and yaw
\* (pitch and roll 0), and translation and quaternion
EulerInputs ==
    {[translation |-> <<0, 0, 0>>, yaw |-> 0],
     [translation |-> <<0, 0, 0>>, yaw |-> 90],
     [translation |-> <<1, 0, 0>>, yaw |-> 0]}

QuatInputs ==
    {[translation |-> <<0, 0, 0>>, quat |-> <<"0", "0", "0", "1">>]}

\* the objects something still refers to
Live(objs, list, widgets) ==
    [id \in {list[i] : i \in 1..Len(list)}
            \cup {widgets[i] : i \in 1..Len(widgets)} |-> objs[id]]

\* the delete loop pops the last widget
WidgetsAfterDeleteLast(widgets, objs, id) ==
    SubSeq(widgets, 1, Len(widgets) - 1)

\* on_delete_shape: the loop that pops the first widget whose shape is
\* equal to the one deleted
WidgetsAfterDelete(widgets, objs, id) ==
    LET I == {i \in 1..Len(widgets) : objs[widgets[i]] = objs[id]}
    IN  IF I = {} THEN widgets ELSE RemoveAt(widgets, Least(I))

\* on_add_shape after parse has given r: the except branch, or add_shape,
\* the new widget and update_plot
AddParsed(e, r, a) ==
    /\ has_temp' = r.has
    /\ temp_replacements' = r.map
    /\ IF r.err # "none"
       THEN /\ shape_op' = "on_add_shape: failed"
            /\ UNCHANGED <<objects, created, shapes, shape_counter,
                           shape_widgets, plotted, auto_ids>>
       ELSE /\ created' = created + 1
            /\ objects' = Store(objects, created + 1, a.shape)
            /\ shapes' = Append(shapes, created + 1)
            /\ shape_counter' = a.counter
            /\ auto_ids' = Append(auto_ids, created + 1)
            /\ shape_widgets' = Append(shape_widgets, created + 1)
            /\ plotted' = update_plot(shapes', objects', current_mode)
            /\ shape_op' = "on_add_shape"
    /\ UNCHANGED <<current_mode, env_dimension, coord_symbols,
                   user_functions, last, prev>>
    /\ UNCHANGED <<vars, sharedvars>>

AddStripped(e, r) ==
    AddParsed(e, r, add_shape(shapes, shape_counter, e, r.val, NoName))

\* the Add button: on_add_shape()
OnAddShape ==
    \E e \in WindowTexts :
        /\ created < MaxCreated
        /\ Len(shapes) < MaxShapes
        /\ IF Strip(e) = <<>>
           THEN /\ shape_op' = "on_add_shape: empty"
                /\ UNCHANGED <<objects, created, shapes, shape_counter,
                               shape_widgets, current_mode, plotted,
                               auto_ids>>
                /\ UNCHANGED <<vars, sharedvars, envvars>>
           ELSE AddStripped(Strip(e),
                    parse(Strip(e), coord_symbols, has_temp,
                          temp_replacements))

\* an event of widget i has changed the objects to objs and the lists to
\* list and widgets, and has called update_plot
Updated(o, objs, list, widgets) ==
    /\ objects' = Live(objs, list, widgets)
    /\ shapes' = list
    /\ shape_widgets' = widgets
    /\ plotted' = update_plot(list, objs, current_mode)
    /\ shape_op' = o
    /\ UNCHANGED <<created, shape_counter, current_mode, auto_ids>>
    /\ UNCHANGED <<vars, sharedvars, envvars>>

\* the delete button of widget i: on_delete_shape(widget.shape)
OnDeleteShape ==
    \E i \in 1..Len(shape_widgets) :
        Updated("on_delete_shape", objects,
                remove_shape(shapes, objects, shape_widgets[i]),
                WidgetsAfterDelete(shape_widgets, objects, shape_widgets[i]))

\* the checkbox of widget i: on_visibility_changed(state)
OnVisibilityChanged ==
    \E i \in 1..Len(shape_widgets), b \in BOOLEAN :
        Updated("on_visibility_changed",
                [objects EXCEPT ![shape_widgets[i]].visible = b],
                shapes, shape_widgets)

\* the translation and Euler fields of widget i: on_euler_changed()
OnEulerChanged ==
    \E i \in 1..Len(shape_widgets), in \in EulerInputs :
        Updated("on_euler_changed",
                [objects EXCEPT ![shape_widgets[i]] =
                    set_rotation_euler(
                        [@ EXCEPT !.translation = in.translation],
                        0, 0, in.yaw)],
                shapes, shape_widgets)

\* the quaternion fields of widget i: on_quat_changed()
OnQuatChanged ==
    \E i \in 1..Len(shape_widgets), in \in QuatInputs :
        Updated("on_quat_changed",
                [objects EXCEPT ![shape_widgets[i]] =
                    [@ EXCEPT !.translation = in.translation,
                              !.rotation_quat = in.quat,
                              !.rotation_euler = quat_to_euler(in.quat)]],
                shapes, shape_widgets)

\* the mode button: toggle_plot_mode()
TogglePlotMode ==
    /\ current_mode' = IF current_mode = "2d" THEN "3d" ELSE "2d"
    /\ plotted' = update_plot(shapes, objects, current_mode')
    /\ shape_op' = "toggle_plot_mode"
    /\ UNCHANGED <<objects, created, shapes, shape_counter, shape_widgets,
                   auto_ids>>
    /\ UNCHANGED <<vars, sharedvars, envvars>>

\* MainWindow(): a MathEnvironment of the default dimension, an empty
\* manager, no widget, the 2D plot
WindowInit == NoCall /\ Constructed /\ Fresh(2) /\ NoShapes

WindowNext ==
    \/ OnAddShape
    \/ OnDeleteShape
    \/ OnVisibilityChanged
    \/ OnEulerChanged
    \/ OnQuatChanged
    \/ TogglePlotMode

WindowSpec ==
    WindowInit /\ [][WindowNext]_<<vars, sharedvars, envvars, shapevars>>

(***************************************************************************)
(* What the claims speak of, stated without the builder's operators       *)
(***************************************************************************)
\* the axis table of the specification
AxisLetters == <<"x", "y", "z", "w", "v", "u", "t", "s", "r", "q">>

Axis(k) == <<AxisLetters[k]>>

TableSize == Len(AxisLetters)

\* a function name followed by an opening parenthesis
CallOpenings == {f \o <<"(">> : f \in FuncNames}

\* s has a function name followed by an opening parenthesis at position i
CallOpensAt(s, i) == \E o \in CallOpenings : StartsWithAt(s, i, o)

HasCall(s) == \E i \in 1..Len(s) : CallOpensAt(s, i)

\* how many times s has a function name followed by an opening parenthesis
CallCount(s) == Cardinality({i \in 1..Len(s) : CallOpensAt(s, i)})

\* how many calls of s the loop of step 2 can match
MatchableCount(s) == Cardinality({i \in 1..Len(s) : MatchesAt(s, i)})

\* s[i..e] is a placeholder Dim[digits]
IndexedAt(s, i, e) ==
    /\ StartsWithAt(s, i, <<"D", "i", "m", "[">>)
    /\ e > i + 4
    /\ e <= Len(s)
    /\ s[e] = "]"
    /\ \A k \in (i + 4)..(e - 1) : IsDigit(s[k])

\* s has a placeholder Dim[i] with i >= d
BadIndex(s, d) ==
    \E i \in 1..Len(s) :
        /\ s[i] = "D"
        /\ \E e \in (i + 5)..Len(s) :
               IndexedAt(s, i, e) /\ PyInt(SubSeq(s, i + 4, e - 1)) >= d

\* s has a Dim token, an indexed placeholder or a function call left
Residual(s) == Contains(s, <<"D", "i", "m">>) \/ HasCall(s)

\* e with every placeholder Dim[i] replaced by axis i, character by character
RECURSIVE ResolveIndexed(_)
ResolveIndexed(e) ==
    IF e = <<>> THEN <<>>
    ELSE IF \E c \in 1..Len(e) : IndexedAt(e, 1, c)
    THEN LET c == CHOOSE c \in 1..Len(e) : IndexedAt(e, 1, c)
         IN  Axis(PyInt(SubSeq(e, 5, c - 1)) + 1)
                 \o ResolveIndexed(SubSeq(e, c + 1, Len(e)))
    ELSE <<Head(e)>> \o ResolveIndexed(Tail(e))

\* e with every Dim replaced by the axis, character by character
RECURSIVE CopyOf(_, _)
CopyOf(e, axis) ==
    IF e = <<>> THEN <<>>
    ELSE IF StartsWithAt(e, 1, <<"D", "i", "m">>)
    THEN axis \o CopyOf(SubSeq(e, 4, Len(e)), axis)
    ELSE <<Head(e)>> \o CopyOf(Tail(e), axis)

\* the d copies of e, in table order
Copies(e, d) == [k \in 1..d |-> CopyOf(e, Axis(k))]

Paren(t) == <<"(">> \o t \o <<")">>

\* the texts ts written one after the other with sep between them
RECURSIVE Interleave(_, _)
Interleave(ts, sep) ==
    IF Len(ts) = 1 THEN ts[1]
    ELSE Interleave(SubSeq(ts, 1, Len(ts) - 1), sep) \o sep \o ts[Len(ts)]

\* the combination of the copies cs that the specification gives for f
Combined(f, cs) ==
    IF f = S_sum
    THEN Interleave([k \in 1..Len(cs) |-> Paren(cs[k])], <<" ", "+", " ">>)
    ELSE IF f = S_prod
    THEN Interleave([k \in 1..Len(cs) |-> Paren(cs[k])], <<" ", "*", " ">>)
    ELSE IF f = S_max
    THEN <<"M", "a", "x">> \o Paren(Interleave(cs, <<",", " ">>))
    ELSE <<"M", "i", "n">> \o Paren(Interleave(cs, <<",", " ">>))

\* the parameter name stands at position i of s as a whole word
WholeWordAt(s, i, nm) ==
    /\ StartsWithAt(s, i, nm)
    /\ (i = 1 \/ ~IsWordChar(s[i - 1]))
    /\ (i + Len(nm) > Len(s) \/ ~IsWordChar(s[i + Len(nm)]))

\* s from position i on, with every whole-word occurrence of a name of the
\* mapping ps replaced by the text of its value, and nothing else changed
RECURSIVE Substituted(_, _, _)
Substituted(s, i, ps) ==
    LET W == {j \in i..Len(s) :
                 \E k \in 1..Len(ps) : WholeWordAt(s, j, ps[k].name)}
    IN  IF W = {} THEN SubSeq(s, i, Len(s))
        ELSE LET j == Least(W)
                 k == CHOOSE k \in 1..Len(ps) : WholeWordAt(s, j, ps[k].name)
             IN  SubSeq(s, i, j - 1) \o PyStr(ps[k].value)
                     \o Substituted(s, j + Len(ps[k].name), ps)

\* the arguments without an indexed placeholder, and those with one
PlainArgs == {A_1, A_2, A_3, A_4}
IndexedArgs == {A_5, A_6, A_7}

\* expand has run its step 2 to the end
Expanded == pc \in {"step3", "returned"}

\* texts the claims name
R_1a ==
    <<"(", "(", "|", "x", "|", "^", "2", ".", "5", ")", " ", "+", " ", "(",
      "|", "y", "|", "^", "2", ".", "5", ")", ")", " ", "=", " ", "1">>
R_1o ==
    <<"(", "|", "x", "|", "^", "2", ".", "5", ")", " ", "+", " ", "(", "|",
      "y", "|", "^", "2", ".", "5", ")", " ", "=", " ", "1">>
R_9 ==
    <<"(", "(", "x", "^", "2", "/", "3", "^", "2", ")", " ", "+", " ", "(",
      "y", "^", "2", "/", "3", "^", "2", ")", ")", " ", "=", " ", "1">>
R_10 ==
    <<"(", "(", "x", "*", "x", ")", " ", "+", " ", "(", "x", "*", "y", ")",
      " ", "+", " ", "(", "x", "*", "z", ")", ")">>

P_p == <<Param(<<"p">>, FloatVal(2, 5))>>
P_a == <<Param(<<"a">>, IntVal(3))>>

\* what expand's docstring and the specification give for max(|Dim|) = 1 in
\* 3D and sum(|Dim|) = 1 in 2D
R_11a ==
    <<"M", "a", "x", "(", "A", "b", "s", "(", "x", ")", ",", " ", "A", "b",
      "s", "(", "y", ")", ",", " ", "A", "b", "s", "(", "z", ")", ")", " ",
      "=", " ", "1">>
R_11b ==
    <<"A", "b", "s", "(", "x", ")", " ", "+", " ", "A", "b", "s", "(", "y",
      ")", " ", "=", " ", "1">>
R_13 ==
    <<"(", "(", "x", "^", "2", ")", " ", "+", " ", "(", "y", "^", "2", ")",
      ")", " ", "=", " ", "7", "^", "2">>
R_16 ==
    <<"(", "M", "a", "x", "(", "x", ",", " ", "y", ",", " ", "z", ")", ")">>

R_15 ==
    <<"(", "(", "x", "^", "2", ")", " ", "+", " ", "(", "y", "^", "2", ")",
      ")", " ", "=", " ", "5", "^", "2">>
R_17 ==
    <<"(", "(", "x", ")", " ", "+", " ", "(", "y", ")", ")", " ", "+", " ",
      "(", "(", "x", ")", " ", "*", " ", "(", "y", ")", ")">>

P_rk == <<Param(<<"r">>, IntVal(7)), Param(<<"k">>, IntVal(4))>>

\* the names of the identity library, and those that need three dimensions
LibraryNames ==
    {"Circle/Sphere", "Diamond/Octahedron", "Square/Cube", "Ellipse/Ellipsoid",
     "Scaled Ellipsoid", "Superellipse/Superquadric",
     "Hyperbola/Hyperboloid (1-sheet)", "Hyperboloid (2-sheet)",
     "Line/Plane/Hyperplane", "Torus", "Hyperbolic Paraboloid", "Norm Ball",
     "Astroid"}
ThreeDimensional ==
    {"Scaled Ellipsoid", "Hyperbola/Hyperboloid (1-sheet)",
     "Hyperboloid (2-sheet)", "Torus", "Hyperbolic Paraboloid"}

RequiredDim(nm) == IF nm \in ThreeDimensional THEN 3 ELSE 1

\* the call has not entered expand
NotEntered ==
    /\ notation = <<>>
    /\ expr_str = <<>>
    /\ indexed = <<>>
    /\ expanded = <<>>
    /\ iterations = 0
    /\ result = <<>>

Keys(d) == {d[k].name : k \in 1..Len(d)}

Lookup(d, nm) == d[CHOOSE k \in 1..Len(d) : d[k].name = nm].value

\* m has the keys of dflt and of ov, once each, with ov's value where ov
\* has the key and dflt's otherwise
IsMerge(m, dflt, ov) ==
    /\ Keys(m) = Keys(dflt) \cup Keys(ov)
    /\ Cardinality(Keys(m)) = Len(m)
    /\ \A nm \in Keys(m) :
           Lookup(m, nm) = IF nm \in Keys(ov) THEN Lookup(ov, nm)
                           ELSE Lookup(dflt, nm)

(***************************************************************************)
(* The claims                                                              *)
(***************************************************************************)

C2_NestedCallsResolved ==
    pc = "returned"
        => \A f \in FuncNames, g \in FuncNames, e \in PlainArgs :
               notation = Wrap(f, Wrap(g, e)) => ~HasCall(result)

\* C3 (as amended): the loop of step 2 ends, after at most as many
\* iterations as the string that step 1 hands to it has function names
\* followed by "(": each iteration takes one matchable call away and makes
\* no new one.
C3_IterationsBounded ==
    /\ pc = "step2"
           => iterations + MatchableCount(expr_str) <= CallCount(indexed)
    /\ Expanded => iterations <= CallCount(indexed)

\* C3 as the specification has it: the bound is the number of function names
\* followed by "(" in the notation the caller passed.
C3_IterationsBoundedByNotation ==
    (pc = "step2" \/ Expanded) => iterations <= CallCount(notation)

C3_Witness ==
    /\ pc = "step3"
    /\ notation = X_3
    /\ iterations = 2
    /\ CallCount(indexed) = 2

\* C4: a string that expand returns for a dimension of 1..10 has no Dim, no
\* Dim[i] and no sum(, prod(, max( or min( left.
C4_NothingLeft ==
    (pc = "returned" /\ dimension <= TableSize) => ~Residual(result)

\* C5: for every identity of the library and every dimension from its
\* min_dim to 10, expand_identity with the default parameters succeeds, and
\* the string it returns has nothing left to expand.
C5_LibraryExpands ==
    (/\ op = "expand_identity"
     /\ name \in IdentityNames
     /\ overrides = <<>>
     /\ dimension <= TableSize)
        => /\ dimension >= MinDimOf(identities[name]) => pc # "raised"
           /\ pc = "returned" => ~Residual(result)

\* C6: for a dimension beyond the axis table expand fails; it never returns
\* a string, which could only be built from the axes of the table.
C6_DimensionRejected == ~(pc = "returned" /\ dimension > TableSize)

\* C7: when the notation has a placeholder Dim[i] with i >= dimension,
\* wherever it stands, the call ends with an index error raised in step 1
\* and returns no string.
C7_IndexRejected ==
    (pc \in {"step2", "step3", "returned", "raised"}
         /\ BadIndex(notation, dimension))
        => /\ pc = "raised"
           /\ error \in {"ValueError: index out of range", "IndexError"}
           /\ result = <<>>
           /\ expanded = <<>>

C7_Witness ==
    /\ pc = "raised"
    /\ notation = Wrap(S_sum, A_6)
    /\ dimension = 2
    /\ error = "ValueError: index out of range"

\* C8: a function call whose argument holds parentheses makes expand fail;
\* expand never returns for such a notation.
C8_ParenthesesRejected ==
    /\ \A f \in FuncNames, e \in PlainArgs :
           ~(pc = "returned" /\ notation = Wrap(f, Wrap(<<>>, e)))
    /\ ~(pc = "returned" /\ notation = E_13)

\* C9: the returned string is the string step 2 produced with every
\* whole-word occurrence of a name of the mapping replaced by the text of
\* its value; occurrences inside longer identifiers and names without an
\* entry stay as they are.
C9_WholeWordSubstitution ==
    pc = "returned" => result = Substituted(expanded, 1, params)

C9_Witness ==
    /\ pc = "returned"
    /\ notation = T_4
    /\ dimension = 2
    /\ params = P_a
    /\ result = R_9

\* C10: a placeholder Dim[i] with i < dimension inside the argument of a
\* function call is replaced by axis i before the copies are made, so every
\* copy keeps that axis and only the bare Dim varies: sum(Dim[0]*Dim) at
\* dimension 3 gives ((x*x) + (x*y) + (x*z)).
C10_IndexedBeforeCopies ==
    /\ (Expanded /\ dimension <= TableSize)
           => \A f \in FuncNames, e \in IndexedArgs :
                  notation = Wrap(f, e)
                      => expanded = Paren(Combined(f,
                                        Copies(ResolveIndexed(e), dimension)))
    /\ (Expanded /\ notation = Wrap(S_sum, A_5) /\ dimension = 3)
           => expanded = R_10

C10_Witness ==
    /\ pc = "returned"
    /\ notation = Wrap(S_sum, A_5)
    /\ dimension = 3
    /\ params = <<>>
    /\ result = R_10

\* C11: the string expand returns has no | character, an absolute value |E|
\* of the notation coming out as Abs(E): expand("max(|Dim|) = 1", 3, {})
\* returns Max(Abs(x), Abs(y), Abs(z)) = 1 and expand("sum(|Dim|) = 1", 2)
\* returns Abs(x) + Abs(y) = 1.
C11_AbsoluteValueRewritten ==
    (pc = "returned" /\ op = "expand" /\ notation \in {T_2, T_3})
        => /\ ~Contains(result, <<"|">>)
           /\ (notation = T_3 /\ dimension = 3) => result = R_11a
           /\ (notation = T_2 /\ dimension = 2) => result = R_11b

\* C12: expand_identity raises the unknown-identity error for a name that
\* is not in the library, whatever the dimension, and the dimension-too-low
\* error for a library name and a dimension below the identity's min_dim;
\* in both cases expand is not entered and nothing is returned.
C12_UnknownOrTooLow ==
    op = "expand_identity"
        => /\ name \notin LibraryNames
                  => /\ pc = "raised"
                     /\ error = "ValueError: unknown identity"
                     /\ NotEntered
           /\ (name \in LibraryNames /\ dimension < RequiredDim(name))
                  => /\ pc = "raised"
                     /\ error = "ValueError: dimension too low"
                     /\ NotEntered

C12_Witness ==
    /\ pc = "raised"
    /\ op = "expand_identity"
    /\ name = "Torus"
    /\ dimension = 2
    /\ error = "ValueError: dimension too low"

\* C13: where expand_identity(name, d, overrides) enters expand, it passes
\* the identity's notation, d, and the mapping M that has the keys of the
\* identity's defaults and of overrides, each with the override's value
\* when overrides has the key and the default's otherwise; what it returns
\* is what expand returns for these.
C13_DelegatesWithMergedParams ==
    (op = "expand_identity" /\ pc \in {"step1", "step2", "step3", "returned"})
        => /\ notation = identities[name].expr
           /\ IsMerge(params, identities[name].params, overrides)
           /\ pc = "returned"
                  => result = expand(notation, dimension, params).out

C13_Witness ==
    /\ pc = "returned"
    /\ op = "expand_identity"
    /\ name = "Circle/Sphere"
    /\ dimension = 2
    /\ overrides = P_rk
    /\ result = R_13

\* C16: for dimensions d1 <= d2 <= 10 the axis names of the copies at d1 are
\* the first d1 of the names at d2, the first name is always x, and Dim[i]
\* resolves to the name of copy i.
C16_AxisOrderStable ==
    /\ (Expanded /\ notation = Wrap(S_max, A_1) /\ dimension <= TableSize)
           => /\ \A d2 \in dimension..TableSize :
                     expanded = Paren(Combined(S_max,
                                    SubSeq(Terms(S_Dim, d2), 1, dimension)))
              /\ StartsWithAt(expanded, 1, <<"(", "M", "a", "x", "(", "x">>)
    /\ (Expanded /\ notation = A_6 /\ dimension <= TableSize)
           => indexed = Terms(S_Dim, dimension)[3]
    /\ (Expanded /\ notation = Wrap(S_max, A_5) /\ dimension <= TableSize)
           => expanded = Paren(Combined(S_max,
                  [k \in 1..dimension |->
                      Terms(S_Dim, dimension)[1] \o <<"*">>
                          \o Terms(S_Dim, dimension)[k]]))

C16_Witness ==
    /\ pc = "returned"
    /\ notation = Wrap(S_max, A_1)
    /\ dimension = 3
    /\ result = R_16

\* C14: on one builder, a call of expand returns (or raises) what an earlier
\* call of expand with the same notation, dimension and params did, whatever
\* calls ran in between; no call changes the identities field of the
\* builder or the mapping its caller passed.
C14_ExpandIsPure ==
    \A t \in Threads :
        /\ (/\ frame[t].pc \in {"returned", "raised"}
            /\ frame[t].call.op = "expand"
            /\ earlier.call = frame[t].call)
               => /\ frame[t].result = earlier.result
                  /\ frame[t].error = earlier.error
        /\ frame[t].pc # "idle" => frame[t].passed = frame[t].call.params
        /\ self_identities = identities

C14_Witness ==
    \E t \in Threads, u \in Threads :
        /\ frame[t].pc = "returned"
        /\ frame[t].call = ExpandCall(T_4, 2, P_a)
        /\ frame[t].result = R_9
        /\ earlier.call = frame[t].call
        /\ frame[u].pc = "raised"
        /\ frame[u].call.op = "expand_identity"

\* C15: after any calls of expand, expand_identity and get_identity_names
\* every identity has the notation, default parameters and min_dim it had at
\* construction, and a call of expand_identity without overrides passes the
\* defaults to expand even after a call with overrides.
C15_LibraryReadOnly ==
    /\ DOMAIN self_identities = LibraryNames
    /\ \A nm \in LibraryNames : self_identities[nm] = identities[nm]
    /\ \A t \in Threads :
           (/\ frame[t].pc \in {"step1", "step2", "step3", "returned"}
            /\ frame[t].call.op = "expand_identity"
            /\ frame[t].call.params = <<>>)
               => frame[t].params = identities[frame[t].call.name].params

C15_Witness ==
    \E t \in Threads :
        /\ earlier.call = IdentityCallOf("Circle/Sphere", 2, P_rk)
        /\ earlier.result = R_13
        /\ frame[t].pc = "returned"
        /\ frame[t].call = IdentityCallOf("Circle/Sphere", 2, <<>>)
        /\ frame[t].result = R_15

\* C17: however the steps of the callers' calls interleave, a call of expand
\* returns the string, or raises the error, that expand gives for its
\* arguments when it runs alone.
C17_SafeUnderInterleaving ==
    \A t \in Threads :
        frame[t].call.op = "expand"
            => LET alone == expand(frame[t].call.notation,
                                   frame[t].call.dimension,
                                   frame[t].call.params)
               IN  /\ frame[t].pc = "returned"
                          => /\ alone.err = "none"
                             /\ frame[t].result = alone.out
                   /\ frame[t].pc = "raised" => frame[t].error = alone.err

C17_Witness ==
    \E t \in Threads, u \in Threads :
        /\ frame[t].pc = "returned"
        /\ frame[t].call = ExpandCall(X_2, 2, <<>>)
        /\ frame[t].result = R_17
        /\ frame[u].pc = "step2"
        /\ frame[u].call = ExpandCall(T_2, 2, <<>>)
        /\ local_expr[u] # T_2

\* the SymPy objects the claims name: the equation of two objects, the
\* object read from a text, the text with the i-th axis in place of n
EqOf(l, r) == Compound("Eq", <<l, r>>)
OverAxes(kind, before, after, d) ==
    Compound(kind, [i \in 1..d |-> Expression(before \o Axis(i) \o after)])

\* C18: after a call of parse that raises, _temp_replacements holds no
\* entry, and the parse that follows a call that raised has the outcome it
\* has on a freshly constructed environment of the same dimension.
C18_NoLeakBetweenParses ==
    /\ (last.op = "parse" /\ last.err # "none")
           => DOMAIN temp_replacements = {}
    /\ (last.op = "parse" /\ prev = "raised")
           => LET fresh == parse(last.text, make_coord_symbols(env_dimension),
                                 FALSE, <<>>)
              IN  last.err = fresh.err /\ last.val = fresh.val

\* C19: parse of sum(n^2) = 25 returns the equation of x^2 + y^2 and 25 in
\* 2D and of x^2 + y^2 + z^2 and 25 in 3D, and parse of product(n) = 10
\* returns the equation of x*y and 10 in 2D.
C19_MacroEquation ==
    (last.op = "parse" /\ env_dimension \in {2, 3})
        => /\ last.text = N_1
                  => /\ last.err = "none"
                     /\ last.val =
                            EqOf(OverAxes("Add", <<>>, <<"*", "*", "2">>,
                                          env_dimension),
                                 Expression(<<"2", "5">>))
           /\ (last.text = N_2 /\ env_dimension = 2)
                  => /\ last.err = "none"
                     /\ last.val = EqOf(OverAxes("Mul", <<>>, <<>>, 2),
                                        Expression(<<"1", "0">>))

\* C20: the argument of a macro call extends to the parenthesis that closes
\* the macro's: parse of sum(abs(n)) = 1 returns the equation of
\* Abs(x) + Abs(y) (+ Abs(z) in 3D) and 1, and
\* define_function("Square(s) = sum(abs(n)) - s") stores the function Square.
C20_ArgumentToMatchingParenthesis ==
    /\ (last.op = "parse" /\ last.text = N_3 /\ env_dimension \in {2, 3})
           => /\ last.err = "none"
              /\ last.val =
                     EqOf(OverAxes("Add", <<"a", "b", "s", "(">>, <<")">>,
                                   env_dimension),
                          Expression(<<"1">>))
    /\ (last.op = "define_function" /\ last.text = D_2 /\ env_dimension = 2)
           => /\ last.err = "none"
              /\ <<"S", "q", "u", "a", "r", "e">> \in DOMAIN user_functions

\* the objects the chains N_4, N_10, N_14 and N_15 are made of
V_x == Expression(<<"x">>)
V_y == Expression(<<"y">>)
V_z == Expression(<<"z">>)
V_1 == Expression(<<"1">>)
V_4 == Expression(<<"4">>)
V_25 == Expression(<<"2", "5">>)
V_xx == Expression(<<"x", "*", "*", "2">>)
V_rr == Expression(<<"r", "*", "*", "2">>)
V_y1 == Expression(<<"y", " ", "+", " ", "1">>)
V_x1 == Expression(<<"x", " ", "+", " ", "1">>)
V_circle ==
    Expression(<<"x", "*", "*", "2", " ", "+", " ", "y", "*", "*", "2">>)

\* the equations a chain stands for, link by link
ChainOf(text, d) ==
    IF text = N_4 THEN <<EqOf(V_circle, V_25)>>
    ELSE IF text = N_10 THEN <<EqOf(V_x, V_y), EqOf(V_y, V_1)>>
    ELSE IF text = N_14
    THEN <<EqOf(V_xx, V_y1), EqOf(V_y1, V_z), EqOf(V_z, V_4)>>
    ELSE <<EqOf(OverAxes("Add", <<>>, <<"*", "*", "2">>, d), V_rr),
           EqOf(V_rr, V_25)>>

MacroFree(text) ==
    \A k \in 1..Len(macros) : ~Contains(text, macros[k].name \o <<"(">>)

\* what the macro-free texts stand for
V_xy == Expression(<<"x", " ", "+", " ", "y">>)

\* the outcome the parse of a macro-free text is to have
MacroFreeOutcome(l) ==
    /\ CountEq(l.text) = 1 => (l.err = "none" /\ l.val.kind = "Eq")
    /\ CountEq(l.text) >= 2 => l.err = "ValueError"
    /\ CountEq(l.text) = 0 => (l.err = "none" /\ l.val.kind = "expr")
    /\ l.text = N_4 => l.val = EqOf(V_circle, V_25)
    /\ l.text = N_9 => l.val = V_xy
    /\ l.text = N_13 => l.val = V_x1

NoSumTexts == {N_2, N_7, N_8}

\* C23: the parse of a text that uses product, max or min and no sum, made
\* right after a parse of a sum(...) text that returned, has the outcome it
\* has on a freshly constructed environment of the same dimension.
C23_SameOnFreshAndUsed ==
    [][(/\ last.op = "parse"
        /\ last.err = "none"
        /\ Contains(last.text, <<"s", "u", "m", "(">>)
        /\ last'.op = "parse"
        /\ last'.text \in NoSumTexts
        /\ env_dimension' = env_dimension)
           => LET fresh == parse(last'.text, make_coord_symbols(env_dimension),
                                 FALSE, <<>>)
              IN  last'.err = fresh.err /\ last'.val = fresh.val]_envvars

\* v is the object sub or has it among the objects it is made of
RECURSIVE Within(_, _)
Within(sub, v) ==
    \/ v = sub
    \/ \E i \in 1..Len(v.args) : Within(sub, v.args[i])

\* C24: the parse of a text with two macro calls, on an environment of
\* dimension 2 or 3 on which no placeholder is left, returns an object
\* that holds the expansion of each call's own argument.
C24_CompositionalOverMacros ==
    [][(/\ last'.op = "parse"
        /\ last'.text \in {N_11, N_12}
        /\ env_dimension \in {2, 3}
        /\ env_dimension' = env_dimension
        /\ has_temp
        /\ DOMAIN temp_replacements = {})
           => /\ last'.err = "none"
              /\ Within(OverAxes("Add", <<>>, <<"*", "*", "2">>, env_dimension),
                        last'.val)
              /\ last'.text = N_11 =>
                     Within(OverAxes("Add", <<>>, <<>>, env_dimension),
                            last'.val)
              /\ last'.text = N_12 =>
                     Within(OverAxes("Mul", <<>>, <<>>, env_dimension),
                            last'.val)]_envvars

\* the name nm stands as a whole word somewhere in s
HasWord(s, nm) == \E i \in 1..Len(s) : WholeWordAt(s, i, nm)

\* C25: for a library identity expanded with its default parameters at a
\* dimension d of the table, no default parameter name is one of the first
\* d axis names, and when a function call of the notation was expanded each
\* of the first d axis names still stands in the string returned.
C25_ParamsKeepAxisNames ==
    (/\ pc = "returned"
     /\ op = "expand_identity"
     /\ overrides = <<>>
     /\ dimension <= TableSize)
        => /\ \A k \in 1..dimension :
                  Axis(k) \notin Keys(identities[name].params)
           /\ iterations >= 1 =>
                  \A k \in 1..dimension : HasWord(result, Axis(k))

\* C26: for an expansion at a dimension d from 2 to 6, the first d axis
\* names of the builder are, in order, the names of the coordinate symbols
\* of a MathEnvironment of dimension d, and each of them that stands in the
\* string returned is such a name.
C26_BuilderAndEnvironmentAxes ==
    (pc = "returned" /\ dimension \in 2..6)
        => /\ CoordSlice(dimension) = make_coord_symbols(dimension).names
           /\ \A k \in 1..dimension :
                  HasWord(result, Axis(k)) =>
                      \E j \in 1..dimension :
                          make_coord_symbols(dimension).names[j] = Axis(k)

\* the name `Shape k`
ShapeK(k) == <<"S", "h", "a", "p", "e", " ">> \o NatStr(k)

\* C27: of the shapes add_shape has named itself since the construction or
\* the last clear_all, the k-th has the name `Shape k`, whatever was
\* removed in between, so no two of them share a name; right after
\* clear_all the collection is empty (the count of such shapes starts
\* again, so that the next one is `Shape 1`).
C27_AutoNamesUnique ==
    /\ \A k \in 1..Len(auto_ids) : objects[auto_ids[k]].name = ShapeK(k)
    /\ \A i, j \in 1..Len(auto_ids) :
           i # j => objects[auto_ids[i]].name # objects[auto_ids[j]].name
    /\ shape_op = "clear_all" => shapes = <<>>

C27_Witness ==
    /\ shape_op = "add_shape"
    /\ Len(auto_ids) = 2
    /\ created = 4
    /\ objects[auto_ids[1]].name = ShapeK(1)
    /\ objects[auto_ids[2]].name = ShapeK(2)
    /\ objects[1].name = ShapeK(1)
    /\ objects[2].name = ShapeK(2)
    /\ auto_ids = <<3, 4>>
    /\ shapes = <<4>>

\* C28: any two shapes that are in the collection at the same time have
\* different colours, as long as the collection holds at most 7 shapes.
C28_ColoursDiffer ==
    Len(shapes) <= 7
        => \A i, j \in 1..Len(shapes) :
               i # j => objects[shapes[i]].color # objects[shapes[j]].color

\* the shapes of the collection that are visible, in collection order
VisibleIds == SelectSeq(shapes, LAMBDA id : objects[id].visible)

\* the widget list mirrors the collection, and the plot shows exactly the
\* visible shapes in collection order
Mirrored ==
    /\ Len(shape_widgets) = Len(shapes)
    /\ \A i \in 1..Len(shapes) : shape_widgets[i] = shapes[i]
    /\ Len(plotted) = Len(VisibleIds)
    /\ \A k \in 1..Len(plotted) :
           /\ plotted[k].name = objects[VisibleIds[k]].name
           /\ plotted[k].color = objects[VisibleIds[k]].color
    /\ VisibleIds = <<>> => plotted = <<>>

\* C29: after every event of the main window the widget list and the
\* collection have the same length and the i-th widget holds the i-th
\* shape, the plot shows exactly the visible shapes in collection order
\* and nothing when none is visible, and an add whose parse fails changes
\* neither list.
C29_WidgetsMirrorShapes ==
    [][/\ Mirrored'
       /\ shape_op' = "on_add_shape: failed"
              => (shapes' = shapes /\ shape_widgets' = shape_widgets)]_shapevars

C29_Witness ==
    /\ shape_op = "on_visibility_changed"
    /\ shapes = <<2>>
    /\ shape_widgets = <<2>>
    /\ created = 2
    /\ ~objects[2].visible
    /\ plotted = <<>>
    /\ DOMAIN temp_replacements # {}

\* the point p shifted by the inverse of the translation of sh and then
\* turned about the z axis by the inverse of its yaw (pitch and roll
\* being 0), on the first n coordinates
Presented(sh, p, n) ==
    LET X == p[1] - sh.translation[1]
        Y == p[2] - sh.translation[2]
        yaw == sh.rotation_euler[3]
        turned == <<X * Cos(360 - yaw) - Y * Sin(360 - yaw),
                    X * Sin(360 - yaw) + Y * Cos(360 - yaw)>>
    IN  IF n = 2 THEN turned
        ELSE turned \o <<p[3] - sh.translation[3]>>

\* C30: in 2D mode and in 3D mode each plotted shape is evaluated at the
\* sample coordinates shifted by its inverse translation and rotated by
\* its inverse rotation, so that two plotted shapes that differ in their
\* rotation only are evaluated at different coordinates; the plotted
\* shapes are the visible ones, unchanged.
C30_FullTransformInBothModes ==
    /\ Len(plotted) = Len(VisibleIds)
    /\ \A k \in 1..Len(plotted) :
           LET sh == objects[VisibleIds[k]]
           IN  plotted[k].at =
                   IF current_mode = "2d"
                   THEN [g \in 1..Len(Grid2) |-> Presented(sh, Grid2[g], 2)]
                   ELSE [g \in 1..Len(Grid3) |-> Presented(sh, Grid3[g], 3)]
    /\ \A i, j \in 1..Len(plotted) :
           (/\ objects[VisibleIds[i]].translation
                   = objects[VisibleIds[j]].translation
            /\ objects[VisibleIds[i]].rotation_euler
                   # objects[VisibleIds[j]].rotation_euler)
               => plotted[i].at # plotted[j].at

====
